---- MODULE Spec2Model ----
(***************************************************************************)
(* Project-GOS: the event API (api/fastapi_app.py, api/routers/score.py),  *)
(* the graph writer (pipeline/graph/neo4j_client.py), the SPICE report     *)
(* builder (core/spice/v22.py), the mapper (core/mappers/mapper.py) and    *)
(* the normalizer (pipeline/normalize/normalize.py).                       *)
(*                                                                         *)
(* Three specifications share the module:                                  *)
(*   Spec       the HTTP surface acting on the event table and the graph   *)
(*   SpecGraph  Neo4jClient.write_event applied to a growing graph         *)
(*   SpecSpice  build_spice_report_v22 applied to bounded event tables     *)
(***************************************************************************)
EXTENDS Integers, Sequences, FiniteSets, Bags, TLC

VARIABLES
    event_table,   \* rows of the relational table "event", in rowid order
    graph,         \* the property graph behind Neo4jClient
    last,          \* the last HTTP exchange: request, response, handler steps
    g_graph,       \* SpecGraph: the graph write_event acts on
    g_last,        \* SpecGraph: the last write_event call
    s_table,       \* SpecSpice: the event table the report is built from
    s_last,        \* SpecSpice: the last build_spice_report_v22 call
    call,          \* the last call of a library function: arguments and outcome
    tactic_table,  \* SpecSync: rows of the table "disarm_tactic", in rowid order
    sync_runs,     \* SpecSync: the sync runs so far, each with its file and outcome
    dash           \* SpecDash: the dashboard's render pass and its fetch tasks

vars == <<event_table, graph, last, g_graph, g_last, s_table, s_last, call,
          tactic_table, sync_runs, dash>>

api_vars == <<event_table, graph, last>>
graph_vars == <<g_graph, g_last>>
spice_vars == <<s_table, s_last>>
sync_vars == <<tactic_table, sync_runs>>

\* The dashboard has rendered nothing.
NoPass == [pc |-> "idle"]

\* Python's None / SQL NULL / JSON null for string-valued fields.
NULL == "<None>"

\* No library function has been called.
NoCall == [fn |-> "none"]

\* The empty dict {}.
EmptyDict == [k \in {} |-> NULL]

(***************************************************************************)
(* Text.  A text is a sequence of tokens; whitespace is a token of its own *)
(* so that tag stripping and whitespace collapsing act as in the code.     *)
(***************************************************************************)
WS == " "
TAG_OPEN == "<p>"
TAG_CLOSE == "</p>"
RAW_EMAIL == "test@example.com"
RAW_PHONE == "123-456-7890"
SHORT_URL == "http://bit.ly/x"
FULL_URL == "http://example.com/full"

T_test == <<TAG_OPEN, "Hello", WS, RAW_EMAIL, WS, SHORT_URL, TAG_CLOSE>>
T_plain == <<"Hello", WS, WS, "world">>
T_es == <<"hola", WS, "mundo">>
T_phish == <<"phishing", WS, "attempt">>
T_phone == <<"call", WS, RAW_PHONE>>

\* A JSON string value and a JSON number value of a content dict.
Str(s) == [t |-> "str", v |-> s]
Num(n) == [t |-> "num", v |-> n]

(***************************************************************************)
(* EventIn (api/schemas.py).                                               *)
(***************************************************************************)
EventIn(id, ts, src, actor, content, feats, ttps, inc, camp) ==
    [event_id |-> id, ts |-> ts, src |-> src, actor_id |-> actor,
     content |-> content, feats |-> feats, observed_ttp |-> ttps,
     incident_id |-> inc, campaign_id |-> camp]

(***************************************************************************)
(* The property graph.  Neo4j nodes and relationships have an identity of  *)
(* their own, so two nodes may carry the same label and id: nodes and rels *)
(* are bags.  A node is keyed <<label, id>>, a relationship                *)
(* <<type, from, to>>; props holds the properties SET on the nodes of a    *)
(* key (every node a MERGE matches is SET alike).                          *)
(***************************************************************************)
EmptyGraph == [nodes |-> EmptyBag, props |-> EmptyDict, rels |-> EmptyBag]

NodeKey(label, id) == <<label, id>>
RelKey(type, from, to) == <<type, from, to>>

MergeNodeOp(label, id, set) == [op |-> "merge_node", key |-> NodeKey(label, id), set |-> set]
MergeRelOp(type, from, to) == [op |-> "merge_rel", key |-> RelKey(type, from, to)]

\* SET n += $props / SET n.k = v on the nodes matched or created by a MERGE.
SetProps(props, key, set) ==
    IF set = EmptyDict THEN props
    ELSE IF key \in DOMAIN props THEN [props EXCEPT ![key] = set @@ @]
    ELSE (key :> set) @@ props

\* CREATE semantics: a new node or relationship whatever exists already.
CreateRunWrite(g, q) ==
    IF q.op = "merge_node"
    THEN [g EXCEPT !.nodes = @ (+) SetToBag({q.key}),
                   !.props = SetProps(@, q.key, q.set)]
    ELSE IF BagIn(q.key[2], g.nodes) /\ BagIn(q.key[3], g.nodes)
         THEN [g EXCEPT !.rels = @ (+) SetToBag({q.key})]
         ELSE g

\* Neo4jClient._run_write on a statement that succeeds: one auto-commit
\* statement.  MERGE (n:L {id}) matches the nodes of that key or creates one;
\* MATCH (a), (b) MERGE (a)-[:T]->(b) does nothing when an endpoint is
\* missing and creates the relationship only when there is none.
RunWrite(g, q) ==
    IF q.op = "merge_node"
    THEN [g EXCEPT !.nodes = IF BagIn(q.key, @) THEN @ ELSE @ (+) SetToBag({q.key}),
                   !.props = SetProps(@, q.key, q.set)]
    ELSE IF BagIn(q.key[2], g.nodes) /\ BagIn(q.key[3], g.nodes)
         THEN [g EXCEPT !.rels = IF BagIn(q.key, @) THEN @ ELSE @ (+) SetToBag({q.key})]
         ELSE g

\* Python truthiness of an Optional[str]: None and "" are falsy.
Truthy(s) == s # NULL /\ s # ""

RECURSIVE TtpOps(_, _)
\* The loop "for ttp_id in event.observed_ttp": write_ttp, then OBSERVED.
TtpOps(eid, ttps) ==
    IF ttps = <<>> THEN <<>>
    ELSE <<MergeNodeOp("TTP", Head(ttps), EmptyDict),
           MergeRelOp("OBSERVED", NodeKey("Event", eid), NodeKey("TTP", Head(ttps)))>>
         \o TtpOps(eid, Tail(ttps))

\* write_event with the ACTOR_OF relation merged before the Actor node.
RelationFirstWriteOps(event) ==
    LET e == NodeKey("Event", event.event_id) IN
    <<MergeNodeOp("Event", event.event_id,
                  [ts |-> event.ts, src |-> event.src,
                   content |-> event.content, feats |-> event.feats])>>
    \o (IF Truthy(event.actor_id)
        THEN <<MergeRelOp("ACTOR_OF", NodeKey("Actor", event.actor_id), e),
               MergeNodeOp("Actor", event.actor_id, EmptyDict)>>
        ELSE <<>>)
    \o TtpOps(event.event_id, event.observed_ttp)
    \o (IF Truthy(event.incident_id)
        THEN <<MergeNodeOp("Incident", event.incident_id, EmptyDict),
               MergeRelOp("PART_OF", e, NodeKey("Incident", event.incident_id))>>
        ELSE <<>>)
    \o (IF Truthy(event.campaign_id)
        THEN <<MergeNodeOp("Campaign", event.campaign_id, EmptyDict),
               MergeRelOp("PART_OF", e, NodeKey("Campaign", event.campaign_id))>>
        ELSE <<>>)

\* The statements Neo4jClient.write_event issues for an event, in order.
WriteOps(event) ==
    LET e == NodeKey("Event", event.event_id) IN
    <<MergeNodeOp("Event", event.event_id,
                  [ts |-> event.ts, src |-> event.src,
                   content |-> event.content, feats |-> event.feats])>>
    \o (IF Truthy(event.actor_id)
        THEN <<MergeNodeOp("Actor", event.actor_id, EmptyDict),
               MergeRelOp("ACTOR_OF", NodeKey("Actor", event.actor_id), e)>>
        ELSE <<>>)
    \o TtpOps(event.event_id, event.observed_ttp)
    \o (IF Truthy(event.incident_id)
        THEN <<MergeNodeOp("Incident", event.incident_id, EmptyDict),
               MergeRelOp("PART_OF", e, NodeKey("Incident", event.incident_id))>>
        ELSE <<>>)
    \o (IF Truthy(event.campaign_id)
        THEN <<MergeNodeOp("Campaign", event.campaign_id, EmptyDict),
               MergeRelOp("PART_OF", e, NodeKey("Campaign", event.campaign_id))>>
        ELSE <<>>)

RECURSIVE RunWrites(_, _)
RunWrites(g, ops) ==
    IF ops = <<>> THEN g ELSE RunWrites(RunWrite(g, Head(ops)), Tail(ops))

\* Neo4jClient.write_event.  fail_at = 0: every statement succeeds.
\* fail_at = k > 0: the k-th statement raises in the driver; _run_write logs
\* and re-raises, so the statements before it stay applied and the rest are
\* never issued.
write_event(g, event, fail_at) ==
    LET ops == WriteOps(event)
        k == IF fail_at = 0 \/ fail_at > Len(ops) THEN Len(ops) ELSE fail_at - 1
    IN [graph |-> RunWrites(g, SubSeq(ops, 1, k)),
        raised |-> (fail_at # 0 /\ fail_at <= Len(ops)),
        issued |-> IF fail_at = 0 \/ fail_at > Len(ops) THEN Len(ops) ELSE fail_at]

(***************************************************************************)
(* SpecGraph: write_event applied again and again to one graph, each call  *)
(* either running to its end or failing at one of its statements.          *)
(***************************************************************************)
MaxFailures == 1

EventIds == {"e1", "e2"}
TtpIds == {"T1000", "T2000"}

\* Two payloads per event id, to see a re-written event overwrite properties.
Payloads ==
    {[ts |-> 1, src |-> "feed", content |-> [text |-> Str(T_plain)], feats |-> EmptyDict],
     [ts |-> 2, src |-> "web", content |-> [msg |-> Str(<<"hi">>)], feats |-> [lang |-> "en"]]}

\* What an event refers to: no one (None and "" are both falsy); an actor, a
\* repeated technique and the same id as incident and as campaign; an actor,
\* two techniques and an incident.
Referents ==
    {[actor_id |-> NULL, observed_ttp |-> <<>>, incident_id |-> NULL, campaign_id |-> ""],
     [actor_id |-> "a1", observed_ttp |-> <<"T1000", "T1000">>,
      incident_id |-> "x", campaign_id |-> "x"],
     [actor_id |-> "a1", observed_ttp |-> <<"T1000", "T2000">>,
      incident_id |-> "x", campaign_id |-> NULL]}

GraphEvents ==
    {EventIn(id, p.ts, p.src, r.actor_id, p.content, p.feats, r.observed_ttp,
             r.incident_id, r.campaign_id) :
        id \in EventIds, p \in Payloads, r \in Referents}

GraphInit ==
    /\ g_graph = EmptyGraph
    /\ g_last = [event_id |-> NULL, raised |-> FALSE, again |-> FALSE, failures |-> 0]
    /\ event_table = <<>>
    /\ graph = EmptyGraph
    /\ last = NULL
    /\ s_table = <<>>
    /\ s_last = NULL
    /\ tactic_table = <<>>
    /\ sync_runs = <<>>
    /\ dash = NoPass
    /\ call = NoCall

\* client.write_event(event) with every statement succeeding.
WriteEvent(e) ==
    LET r == write_event(g_graph, e, 0) IN
    /\ g_graph' = r.graph
    /\ g_last' = [event_id |-> e.event_id, raised |-> r.raised,
                  again |-> (write_event(g_graph, e, 0).graph = g_graph),
                  failures |-> g_last.failures]
    /\ UNCHANGED <<sync_vars, dash, api_vars, spice_vars, call>>

\* client.write_event(event) whose k-th statement fails in the driver.
WriteEventFails(e, k) ==
    LET r == write_event(g_graph, e, k) IN
    /\ k \in 1..Len(WriteOps(e))
    /\ g_last.failures < MaxFailures
    /\ g_graph' = r.graph
    /\ g_last' = [event_id |-> e.event_id, raised |-> r.raised, again |-> FALSE,
                  failures |-> g_last.failures + 1]
    /\ UNCHANGED <<sync_vars, dash, api_vars, spice_vars, call>>

GraphNext ==
    \/ \E e \in GraphEvents : WriteEvent(e)
    \/ \E e \in GraphEvents : \E k \in 1..Len(WriteOps(e)) : WriteEventFails(e, k)

SpecGraph == GraphInit /\ [][GraphNext]_vars

\* C6: write_event is idempotent.  From every reachable graph and for every
\* event, applying write_event twice gives the graph that applying it once
\* gives; and no graph ever holds two nodes with the same label and id or two
\* relationships of one type between the same two nodes.
C6_WriteEventIdempotent ==
    /\ \A e \in GraphEvents :
          LET once == write_event(g_graph, e, 0).graph
          IN write_event(once, e, 0).graph = once
    /\ \A k \in BagToSet(g_graph.nodes) : CopiesIn(k, g_graph.nodes) = 1
    /\ \A k \in BagToSet(g_graph.rels) : CopiesIn(k, g_graph.rels) = 1

\* An event with an actor, a technique, an incident and a campaign has been
\* written whole onto a graph that held all of it already.
C6_Witness ==
    /\ g_last.event_id # NULL /\ ~g_last.raised /\ g_last.again
    /\ \E a \in {"a1"}, t \in TtpIds :
          LET e == NodeKey("Event", g_last.event_id) IN
          /\ g_last.failures > 0
          /\ BagIn(RelKey("ACTOR_OF", NodeKey("Actor", a), e), g_graph.rels)
          /\ BagIn(RelKey("OBSERVED", e, NodeKey("TTP", t)), g_graph.rels)
          /\ BagIn(RelKey("PART_OF", e, NodeKey("Incident", "x")), g_graph.rels)
          /\ BagIn(RelKey("PART_OF", e, NodeKey("Campaign", "x")), g_graph.rels)

(***************************************************************************)
(* The SPICE report builder (core/spice/v22.py).                           *)
(*                                                                         *)
(* Time: ts is a point of an ordered time line (1, 2, ...); a window bound *)
(* is None, the empty string or a point of that line, and the database     *)
(* compares ts with a bound in the order of the line.                      *)
(***************************************************************************)
NoneBound == <<"None">>
EmptyBound == <<"str">>
TimeBound(t) == <<"str", t>>

\* The window argument: None, or a list of bounds.
NoWindow == [given |-> FALSE, bounds |-> <<>>]
Window(bounds) == [given |-> TRUE, bounds |-> bounds]

\* SQL NULL in the JSON column observed_ttp.
NULL_LIST == <<NULL>>

\* "if start:" / "if end:" -- None and "" are falsy.
BoundGiven(b) == Len(b) = 2

TOP_N == 3

Min(a, b) == IF a <= b THEN a ELSE b

\* The scope filter with the incident and campaign columns exchanged.
SwappedScopeMatches(row, scope, scope_id) ==
    CASE scope = "event" -> row.event_id = scope_id
      [] scope = "incident" -> row.campaign_id # NULL /\ row.campaign_id = scope_id
      [] scope = "campaign" -> row.incident_id # NULL /\ row.incident_id = scope_id
      [] OTHER -> TRUE

\* The scope filter selecting nothing for a scope kind it does not know.
StrictScopeMatches(row, scope, scope_id) ==
    CASE scope = "event" -> row.event_id = scope_id
      [] scope = "incident" -> row.incident_id # NULL /\ row.incident_id = scope_id
      [] scope = "campaign" -> row.campaign_id # NULL /\ row.campaign_id = scope_id
      [] OTHER -> FALSE

\* The WHERE clause on the scope: a column equal to scope_id (a NULL column
\* equals nothing); any other scope kind adds no clause.
ScopeMatches(row, scope, scope_id) ==
    CASE scope = "event" -> row.event_id = scope_id
      [] scope = "incident" -> row.incident_id # NULL /\ row.incident_id = scope_id
      [] scope = "campaign" -> row.campaign_id # NULL /\ row.campaign_id = scope_id
      [] OTHER -> TRUE

\* The window filter with an exclusive upper bound.
ExclusiveWindowMatches(row, window) ==
    IF window.given /\ Len(window.bounds) = 2
    THEN /\ BoundGiven(window.bounds[1]) => row.ts >= window.bounds[1][2]
         /\ BoundGiven(window.bounds[2]) => row.ts < window.bounds[2][2]
    ELSE TRUE

\* The WHERE clauses on ts: "if window and len(window) == 2", then ts >= start
\* when start is truthy and ts <= end when end is truthy.
WindowMatches(row, window) ==
    IF window.given /\ Len(window.bounds) = 2
    THEN /\ BoundGiven(window.bounds[1]) => row.ts >= window.bounds[1][2]
         /\ BoundGiven(window.bounds[2]) => row.ts <= window.bounds[2][2]
    ELSE TRUE

RECURSIVE SelectRows(_, _, _, _)
\* conn.execute(query).fetchall(): the matching rows, in table order.
SelectRows(table, scope, scope_id, window) ==
    IF table = <<>> THEN <<>>
    ELSE LET rest == SelectRows(Tail(table), scope, scope_id, window) IN
         IF ScopeMatches(Head(table), scope, scope_id) /\ WindowMatches(Head(table), window)
         THEN <<Head(table)>> \o rest
         ELSE rest

\* ttp_counts[ttp] = ttp_counts.get(ttp, 0) + 1 on a dict kept as the
\* sequence of its <<key, value>> items in insertion order.
CountTtp(counts, ttp) ==
    IF \E i \in 1..Len(counts) : counts[i][1] = ttp
    THEN [i \in 1..Len(counts) |->
             IF counts[i][1] = ttp THEN <<ttp, counts[i][2] + 1>> ELSE counts[i]]
    ELSE Append(counts, <<ttp, 1>>)

RECURSIVE CountList(_, _)
CountList(counts, observed) ==
    IF observed = <<>> THEN counts
    ELSE CountList(CountTtp(counts, Head(observed)), Tail(observed))

RECURSIVE NullCountingCountRows(_, _)
\* A NULL observed_ttp counted as one technique, None.
NullCountingCountRows(counts, rows) ==
    IF rows = <<>> THEN counts
    ELSE NullCountingCountRows(CountList(counts, Head(rows).observed_ttp), Tail(rows))

RECURSIVE CountRows(_, _)
\* for row in rows: observed = row.observed_ttp or []; for ttp in observed: ...
CountRows(counts, rows) ==
    IF rows = <<>> THEN counts
    ELSE CountRows(
            CountList(counts,
                      IF Head(rows).observed_ttp = NULL_LIST THEN <<>> ELSE Head(rows).observed_ttp),
            Tail(rows))

\* An insertion that puts an item before the items of equal count.
UnstableInsertDesc(sorted, item) ==
    LET n == Cardinality({i \in 1..Len(sorted) : sorted[i][2] > item[2]})
    IN SubSeq(sorted, 1, n) \o <<item>> \o SubSeq(sorted, n + 1, Len(sorted))

\* One step of a stable descending sort: the item goes after every item
\* whose count is not smaller.
InsertDesc(sorted, item) ==
    LET n == Cardinality({i \in 1..Len(sorted) : sorted[i][2] >= item[2]})
    IN SubSeq(sorted, 1, n) \o <<item>> \o SubSeq(sorted, n + 1, Len(sorted))

RECURSIVE SortedDesc(_, _)
\* sorted(items, key=lambda kv: kv[1], reverse=True): stable, so items of
\* equal count keep the order they have in items.
SortedDesc(sorted, items) ==
    IF items = <<>> THEN sorted
    ELSE SortedDesc(InsertDesc(sorted, Head(items)), Tail(items))

\* A top list cut one short.
ShortTopTtps(counts) ==
    LET s == SortedDesc(<<>>, counts)
    IN [i \in 1..Min(TOP_N - 1, Len(s)) |-> s[i][1]]

\* sorted(ttp_counts.items(), ...)[:3], then the ids alone.
TopTtps(counts) ==
    LET s == SortedDesc(<<>>, counts)
    IN [i \in 1..Min(TOP_N, Len(s)) |-> s[i][1]]

\* A report builder that adds to a row's techniques the one it reads off the
\* row's content when the content holds a text.
ContentSpiceReport(table, scope, scope_id, window) ==
    LET rows == SelectRows(table, scope, scope_id, window)
        derived == [i \in 1..Len(rows) |->
                       [rows[i] EXCEPT !.observed_ttp =
                           (IF @ = NULL_LIST THEN <<>> ELSE @)
                              \o (IF "text" \in DOMAIN rows[i].content THEN <<"T1566">> ELSE <<>>)]]
        ttp_counts == CountRows(<<>>, derived)
        top_ttp_ids == TopTtps(ttp_counts)
    IN [version |-> "2.2", scope |-> scope, scope_id |-> scope_id, window |-> window,
        scores |-> [event_count |-> Len(rows), distinct_ttps |-> Len(ttp_counts)],
        top_ttps |-> top_ttp_ids,
        paths |-> EmptyDict,
        blue_coas |-> [i \in 1..Len(top_ttp_ids) |->
                          [ttp |-> top_ttp_ids[i], action |-> <<"Investigate and mitigate", top_ttp_ids[i]>>]]]

\* build_spice_report_v22, less report_id and generated_at (clock readings).
build_spice_report_v22(table, scope, scope_id, window) ==
    LET rows == SelectRows(table, scope, scope_id, window)
        ttp_counts == CountRows(<<>>, rows)
        top_ttp_ids == TopTtps(ttp_counts)
    IN [version |-> "2.2", scope |-> scope, scope_id |-> scope_id, window |-> window,
        scores |-> [event_count |-> Len(rows), distinct_ttps |-> Len(ttp_counts)],
        top_ttps |-> top_ttp_ids,
        paths |-> EmptyDict,
        blue_coas |-> [i \in 1..Len(top_ttp_ids) |->
                          [ttp |-> top_ttp_ids[i], action |-> <<"Investigate and mitigate", top_ttp_ids[i]>>]]]

(***************************************************************************)
(* SpecSpice: rows are inserted into the event table (as the fixtures of   *)
(* tests/test_spice_report.py and tests/test_scoring.py insert them), and  *)
(* reports are built over it.                                              *)
(***************************************************************************)
MaxRows == 3

RowIds == <<"e1", "e2", "e3", "e4", "e5">>

\* (ts, observed_ttp, incident_id, campaign_id) of the rows inserted.
SpiceRowInputs ==
    {<<2, <<"T1000", "T2000">>, "x", "y">>,
     <<2, <<"T2000", "T3000", "T4000">>, "y", "x">>,
     <<1, <<"T3000", "T4000">>, "x", NULL>>,
     <<3, NULL_LIST, "x", "y">>,
     <<1, <<"T4000", "T4000">>, NULL, "x">>}

SpiceRow(id, r) ==
    EventIn(id, r[1], "unit-test", NULL, EmptyDict, EmptyDict, r[2], r[3], r[4])

Scopes == {"event", "incident", "campaign"}
\* (scope, scope_id) of the reports asked for; "actor" is no scope kind.
ScopeInputs == {<<"event", "e2">>, <<"incident", "x">>, <<"campaign", "x">>, <<"actor", "x">>}
BoundInputs == {NoneBound, EmptyBound, TimeBound(2)}

\* No window, windows of length 0, 1 and 3, and every two-element window.
WindowInputs ==
    {NoWindow, Window(<<>>), Window(<<TimeBound(2)>>),
     Window(<<TimeBound(1), TimeBound(2), TimeBound(3)>>)}
    \cup {Window(<<a, b>>) : a \in BoundInputs, b \in BoundInputs}

SpiceInit ==
    /\ s_table = <<>>
    /\ s_last = [called |-> FALSE]
    /\ tactic_table = <<>>
    /\ sync_runs = <<>>
    /\ dash = NoPass
    /\ g_graph = EmptyGraph
    /\ g_last = [event_id |-> NULL, raised |-> FALSE, again |-> FALSE, failures |-> 0]
    /\ event_table = <<>>
    /\ graph = EmptyGraph
    /\ last = NULL
    /\ call = NoCall

\* conn.execute(event_table.insert(), ...) of one more row.
InsertRow(r) ==
    /\ Len(s_table) < MaxRows
    /\ s_table' = Append(s_table, SpiceRow(RowIds[Len(s_table) + 1], r))
    /\ s_last' = [called |-> FALSE]
    /\ UNCHANGED <<sync_vars, dash, api_vars, graph_vars, call>>

\* build_spice_report_v22(scope, scope_id, window, dsn=engine): a SELECT in a
\* transaction that writes nothing.
BuildReport(scope, scope_id, window) ==
    /\ s_table' = s_table
    /\ s_last' = [called |-> TRUE, scope |-> scope, scope_id |-> scope_id, window |-> window,
                  selected |-> LET rows == SelectRows(s_table, scope, scope_id, window)
                               IN [i \in 1..Len(rows) |-> rows[i].event_id],
                  report |-> build_spice_report_v22(s_table, scope, scope_id, window)]
    /\ UNCHANGED <<sync_vars, dash, api_vars, graph_vars, call>>

SpiceNext ==
    \/ \E r \in SpiceRowInputs : InsertRow(r)
    \/ \E sc \in ScopeInputs, window \in WindowInputs : BuildReport(sc[1], sc[2], window)

SpecSpice == SpiceInit /\ [][SpiceNext]_vars

\* The rows of the table a report call selected, in table order.
SelectedRows ==
    [i \in 1..Len(s_last.selected) |->
        CHOOSE r \in {s_table[j] : j \in 1..Len(s_table)} : r.event_id = s_last.selected[i]]

\* C8: for scope = event, incident or campaign and a window that is null or
\* has two elements, the report selects exactly the rows whose event_id,
\* incident_id or campaign_id equals scope_id and whose ts is >= the start
\* bound and <= the end bound, a bound that is None or "" being open.
C8_SelectsScopeAndWindow ==
    (s_last.called /\ s_last.scope \in Scopes
        /\ (~s_last.window.given \/ Len(s_last.window.bounds) = 2))
    => LET w == s_last.window
           column(r) == CASE s_last.scope = "event" -> r.event_id
                          [] s_last.scope = "incident" -> r.incident_id
                          [] s_last.scope = "campaign" -> r.campaign_id
           open(b) == b = NoneBound \/ b = EmptyBound
           inWindow(r) == w.given =>
                             /\ open(w.bounds[1]) \/ w.bounds[1][2] <= r.ts
                             /\ open(w.bounds[2]) \/ r.ts <= w.bounds[2][2]
           wanted == {j \in 1..Len(s_table) :
                         column(s_table[j]) = s_last.scope_id /\ inWindow(s_table[j])}
       IN /\ {s_last.selected[i] : i \in 1..Len(s_last.selected)}
                = {s_table[j].event_id : j \in wanted}
          /\ Len(s_last.selected) = Cardinality(wanted)
          /\ s_last.report.scores.event_count = Cardinality(wanted)

\* An incident report with both bounds given over three rows of the incident:
\* the row at the bound is selected, the rows before and after it are not.
C8_Witness ==
    /\ s_last.called /\ s_last.scope = "incident"
    /\ s_last.window = Window(<<TimeBound(2), TimeBound(2)>>)
    /\ Len(s_last.selected) = 1
    /\ \E i, j, k \in 1..Len(s_table) :
          /\ s_table[i].incident_id = "x" /\ s_table[i].ts = 1
          /\ s_table[j].incident_id = "x" /\ s_table[j].ts = 2
          /\ s_table[k].incident_id = "x" /\ s_table[k].ts = 3

\* observed_ttp of a row as a list (NULL is the empty list).
ObservedOf(r) == IF r.observed_ttp = NULL_LIST THEN <<>> ELSE r.observed_ttp

RECURSIVE Concat(_)
Concat(lists) == IF lists = <<>> THEN <<>> ELSE Head(lists) \o Concat(Tail(lists))

\* The technique ids of the selected rows, in the order they are read.
SelectedTtps == Concat([i \in 1..Len(SelectedRows) |-> ObservedOf(SelectedRows[i])])

\* How often technique t occurs in the selected rows.
Occurrences(t) == Cardinality({i \in 1..Len(SelectedTtps) : SelectedTtps[i] = t})

\* Where technique t is first met in the selected rows.
FirstMet(t) == CHOOSE i \in 1..Len(SelectedTtps) :
                  SelectedTtps[i] = t /\ \A j \in 1..(i - 1) : SelectedTtps[j] # t

\* C9: event_count is the number of selected events, distinct_ttps the number
\* of different technique ids in their observed_ttp lists (NULL counting as
\* empty); top_ttps holds min(3, distinct_ttps) different ids in non-increasing
\* order of occurrence count, no omitted id occurring more often than a listed
\* one; blue_coas has one entry per top_ttps element, in the same order.
C9_ScoresAndTopTtps ==
    s_last.called =>
       LET rep == s_last.report
           top == rep.top_ttps
           ids == {SelectedTtps[i] : i \in 1..Len(SelectedTtps)}
           listed == {top[i] : i \in 1..Len(top)}
       IN /\ rep.scores.event_count = Len(s_last.selected)
          /\ rep.scores.distinct_ttps = Cardinality(ids)
          /\ Len(top) = Min(3, Cardinality(ids))
          /\ listed \subseteq ids
          /\ Cardinality(listed) = Len(top)
          /\ \A i, j \in 1..Len(top) : i < j => Occurrences(top[i]) >= Occurrences(top[j])
          /\ \A t \in ids \ listed : \A u \in listed : Occurrences(t) <= Occurrences(u)
          /\ Len(rep.blue_coas) = Len(top)
          /\ \A i \in 1..Len(top) : rep.blue_coas[i].ttp = top[i]

\* A report over three rows, one with a NULL list, holding four techniques
\* of unequal counts: three are listed, the most frequent first although it
\* is not the first met, and one of the rarest is left out.
C9_Witness ==
    /\ s_last.called
    /\ s_last.report.scores.distinct_ttps = 4
    /\ Len(s_last.report.top_ttps) = 3
    /\ s_last.report.scores.event_count = 3
    /\ \E i \in 1..Len(SelectedRows) : SelectedRows[i].observed_ttp = NULL_LIST
    /\ Occurrences(s_last.report.top_ttps[1]) > Occurrences(s_last.report.top_ttps[3])
    /\ FirstMet(s_last.report.top_ttps[1]) > FirstMet(s_last.report.top_ttps[2])

\* Techniques of equal count are listed in the order they are first met.
TiesKeepRowOrder ==
    s_last.called =>
       LET top == s_last.report.top_ttps
           ids == {SelectedTtps[i] : i \in 1..Len(SelectedTtps)}
           listed == {top[i] : i \in 1..Len(top)}
       IN /\ \A i, j \in 1..Len(top) :
                (i < j /\ Occurrences(top[i]) = Occurrences(top[j]))
                   => FirstMet(top[i]) < FirstMet(top[j])
          /\ \A t \in ids \ listed : \A u \in listed :
                Occurrences(t) = Occurrences(u) => FirstMet(u) < FirstMet(t)

\* C10: a report call never modifies the event table; a call repeated with
\* the same scope, scope_id and window on the unchanged table returns equal
\* scores and top_ttps; and the order of techniques of equal count is fixed:
\* they keep the order in which they are first met in row order.
C10_RepeatableReport ==
    /\ []TiesKeepRowOrder
    /\ [][s_last'.called => s_table' = s_table]_vars
    /\ [][(/\ s_last.called /\ s_last'.called /\ s_table' = s_table
           /\ s_last'.scope = s_last.scope /\ s_last'.scope_id = s_last.scope_id
           /\ s_last'.window = s_last.window)
          => /\ s_last'.report.scores = s_last.report.scores
             /\ s_last'.report.top_ttps = s_last.report.top_ttps]_vars

\* A report listing two techniques of equal count, with a third of the same
\* count left out.
C10_Witness ==
    /\ s_last.called
    /\ s_last.report.scores.distinct_ttps = 4
    /\ \A i \in 1..4 : Occurrences(SelectedTtps[i]) = 1
    /\ Len(s_last.report.top_ttps) = 3

(***************************************************************************)
(* The normalizer (pipeline/normalize/normalize.py), on token texts.       *)
(***************************************************************************)
IsTag(tok) == tok \in {TAG_OPEN, TAG_CLOSE}

RECURSIVE StripTags(_)
\* re.sub(r"<[^>]+>", "", text)
StripTags(text) ==
    IF text = <<>> THEN <<>>
    ELSE IF IsTag(Head(text)) THEN StripTags(Tail(text))
    ELSE <<Head(text)>> \o StripTags(Tail(text))

RECURSIVE CollapseWs(_)
\* re.sub(r"\s+", " ", text)
CollapseWs(text) ==
    IF Len(text) < 2 THEN text
    ELSE IF text[1] = WS /\ text[2] = WS THEN CollapseWs(Tail(text))
    ELSE <<Head(text)>> \o CollapseWs(Tail(text))

\* str.strip()
Strip(text) ==
    LET a == IF text # <<>> /\ Head(text) = WS THEN Tail(text) ELSE text
    IN IF a # <<>> /\ a[Len(a)] = WS THEN SubSeq(a, 1, Len(a) - 1) ELSE a

clean_text(text) == Strip(CollapseWs(StripTags(text)))

\* The words of EN_WORDS and ES_WORDS found in a lower-cased token
\* ("hello" holds "hello" and "el").
WordsIn(tok) ==
    CASE tok \in {"Hello", "hello"} -> {"hello", "el"}
      [] tok = "world" -> {"world"}
      [] tok = "hola" -> {"hola"}
      [] tok = "mundo" -> {"mundo"}
      [] OTHER -> {}

EN_WORDS == {"the", "and", "hello", "world"}
ES_WORDS == {"hola", "mundo", "gracias", "que", "el"}

\* sum(word in lowered for word in WORDS)
Score(text, words) ==
    Cardinality({w \in words : \E i \in 1..Len(text) : w \in WordsIn(text[i])})

detect_language(text) ==
    IF Score(text, ES_WORDS) > Score(text, EN_WORDS) THEN "es" ELSE "en"

SUPPORTED_LANGUAGES == {"en"}

\* EMAIL_RE.sub("[EMAIL]", text), then PHONE_RE.sub("[PHONE]", text).
\* A URL that holds an e-mail address becomes another URL.
MAIL_URL == "http://bit.ly/x?u=test@example.com"
SCRUBBED_URL == "http://bit.ly/x?u=[EMAIL]"
remove_pii(text) ==
    [i \in 1..Len(text) |->
        IF text[i] = RAW_EMAIL THEN "[EMAIL]"
        ELSE IF text[i] = RAW_PHONE THEN "[PHONE]"
        ELSE IF text[i] = MAIL_URL THEN SCRUBBED_URL
        ELSE text[i]]

\* URL_RE: the tokens that are URLs, and where urlopen ends up for each.
SHORT_URL2 == "http://t.co/y"
FULL_URL2 == "http://example.org/page"
IsUrl(tok) == tok \in {SHORT_URL, FULL_URL, SHORT_URL2, FULL_URL2, MAIL_URL, SCRUBBED_URL}
Target(url) ==
    CASE url = SHORT_URL -> FULL_URL
      [] url = SHORT_URL2 -> FULL_URL2
      [] OTHER -> url

\* The network: net[j] tells whether the j-th urlopen answers (TRUE) or
\* raises (FALSE); beyond the end of net it answers.
Answers(net, j) == IF j <= Len(net) THEN net[j] ELSE TRUE
AlwaysResolves == <<>>

\* _expand_url: resp.geturl() of the answer, the URL itself when urlopen
\* raises.
expand_url(url, answers) == IF answers THEN Target(url) ELSE url

RECURSIVE ExpandFrom(_, _, _)
\* URL_RE.sub over the rest of the text, j - 1 requests having been made.
ExpandFrom(text, net, j) ==
    IF text = <<>> THEN [text |-> <<>>, requests |-> <<>>]
    ELSE IF IsUrl(Head(text))
    THEN LET rest == ExpandFrom(Tail(text), net, j + 1)
         IN [text |-> <<expand_url(Head(text), Answers(net, j))>> \o rest.text,
             requests |-> <<Head(text)>> \o rest.requests]
    ELSE LET rest == ExpandFrom(Tail(text), net, j)
         IN [text |-> <<Head(text)>> \o rest.text, requests |-> rest.requests]

\* URL_RE.sub(lambda m: _expand_url(m.group(0)), text): the text with every
\* URL replaced, and the URLs urlopen was called with, in order.
expand_urls(text, net) == ExpandFrom(text, net, 1)

\* normalize(event): [ok, event, requests]; ok = FALSE is the ValueError
\* "Unsupported language".
normalize(event, net) ==
    LET raw == IF "text" \in DOMAIN event.content THEN event.content.text.v ELSE <<>>
        text == clean_text(raw)
        lang == detect_language(text)
        expanded == expand_urls(remove_pii(text), net)
    IN IF lang \notin SUPPORTED_LANGUAGES
       THEN [ok |-> FALSE, error |-> "ValueError", event |-> event, requests |-> <<>>]
       ELSE [ok |-> TRUE,
             event |-> [event EXCEPT
                 !.content = ("text" :> Str(expanded.text)) @@ @,
                 !.feats = ("lang" :> lang) @@ @],
             requests |-> expanded.requests]

\* The statements of pipeline/normalize/normalize.py in file order: a
\* __future__ import, an import and the stub normalize_event come before
\* the module docstring and a second __future__ import.
NORMALIZE_MODULE ==
    <<"future_import", "import", "def normalize_event", "string",
      "future_import", "import", "import", "import", "import", "import",
      "def clean_text", "assign EN_WORDS", "assign ES_WORDS", "def detect_language",
      "assign SUPPORTED_LANGUAGES", "assign EMAIL_RE", "assign PHONE_RE", "def remove_pii",
      "assign URL_RE", "def _expand_url", "def expand_urls", "def normalize",
      "assign __all__">>

\* Python compiles a module only if nothing but the docstring and other
\* __future__ imports precedes a __future__ import.
Compiles(module) ==
    \A i \in 1..Len(module) :
        module[i] = "future_import"
           => \A j \in 1..(i - 1) :
                 module[j] = "future_import" \/ (j = 1 /\ module[j] = "string")

ImportError == [ok |-> FALSE, error |-> "SyntaxError", requests |-> <<>>]

\* "from pipeline.normalize import normalize as norm", then
\* norm.normalize(event) and norm.expand_urls(text).
norm_normalize(event, net) ==
    IF ~Compiles(NORMALIZE_MODULE) THEN ImportError ELSE normalize(event, net)

norm_expand_urls(text, net) ==
    IF ~Compiles(NORMALIZE_MODULE) THEN ImportError
    ELSE [ok |-> TRUE] @@ expand_urls(text, net)

(***************************************************************************)
(* The mapper (core/mappers/mapper.py).                                    *)
(***************************************************************************)
\* KEYWORD_TTPS, in dict order.
KEYWORD_TTPS ==
    <<<<"phish", "T1566">>, <<"malware", "T1204">>, <<"ransomware", "T1486">>,
      <<"sql injection", "T1190">>, <<"ddos", "T1498">>, <<"credential", "T1110">>,
      <<"lateral", "T1021">>, <<"exfiltration", "T1041">>>>

\* A list value of a content dict, its elements being one-token strings, and
\* a nested dict holding a text.
List(elems) == [t |-> "list", v |-> elems]
Nested(text) == [t |-> "dict", v |-> text]

\* str.lower() of a token.
Lower(tok) ==
    CASE tok = "Phishing" -> "phishing"
      [] tok = "SQL" -> "sql"
      [] tok = "Normal" -> "normal"
      [] OTHER -> tok

\* The one-word keywords of KEYWORD_TTPS that occur in a lower-cased token.
KeywordsIn(tok) ==
    CASE tok = "phishing" -> {"phish"}
      [] tok = "ransomware" -> {"ransomware"}
      [] tok = "exfiltration" -> {"exfiltration"}
      [] OTHER -> {}

\* The keys of a content dict in the order content.values() yields them:
\* the order in which the events below are written.
CONTENT_KEYS == <<"text", "msg", "tags", "meta">>

RECURSIVE StrOnlyTextParts(_, _)
\* text_parts without the branch for list values.
StrOnlyTextParts(content, keys) ==
    IF keys = <<>> THEN <<>>
    ELSE LET k == Head(keys)
             rest == StrOnlyTextParts(content, Tail(keys))
         IN IF k \notin DOMAIN content THEN rest
            ELSE IF content[k].t = "str"
            THEN <<[i \in 1..Len(content[k].v) |-> Lower(content[k].v[i])]>> \o rest
            ELSE rest

RECURSIVE TextParts(_, _)
\* text_parts: value.lower() of a str value, str(v).lower() of every element
\* of a list value, nothing of a value of another type.
TextParts(content, keys) ==
    IF keys = <<>> THEN <<>>
    ELSE LET k == Head(keys)
             rest == TextParts(content, Tail(keys))
         IN IF k \notin DOMAIN content THEN rest
            ELSE IF content[k].t = "str"
            THEN <<[i \in 1..Len(content[k].v) |-> Lower(content[k].v[i])]>> \o rest
            ELSE IF content[k].t = "list"
            THEN [i \in 1..Len(content[k].v) |-> <<Lower(content[k].v[i])>>] \o rest
            ELSE rest

RECURSIVE Join(_)
\* " ".join(text_parts)
Join(parts) ==
    IF parts = <<>> THEN <<>>
    ELSE IF Len(parts) = 1 THEN parts[1]
    ELSE parts[1] \o <<WS>> \o Join(Tail(parts))

\* keyword in full_text; "sql injection" is the one keyword of two words.
KeywordIn(keyword, full_text) ==
    IF keyword = "sql injection"
    THEN \E i \in 1..(Len(full_text) - 2) :
            full_text[i] = "sql" /\ full_text[i + 1] = WS /\ full_text[i + 2] = "injection"
    ELSE \E i \in 1..Len(full_text) : keyword \in KeywordsIn(full_text[i])

\* keyword in full_text, for the full_text of a content dict.
KeywordInContent(keyword, content) ==
    KeywordIn(keyword, Join(TextParts(content, CONTENT_KEYS)))

\* counts[ttp_id] += 1 on a Counter kept as the sequence of its items.
CounterAdd(counts, ttp_id) ==
    IF \E i \in 1..Len(counts) : counts[i][1] = ttp_id
    THEN [i \in 1..Len(counts) |->
             IF counts[i][1] = ttp_id THEN <<ttp_id, counts[i][2] + 1>> ELSE counts[i]]
    ELSE Append(counts, <<ttp_id, 1>>)

RECURSIVE CountKeywords(_, _, _)
\* for keyword, ttp_id in KEYWORD_TTPS.items(): if keyword in full_text: ...
CountKeywords(counts, table, full_text) ==
    IF table = <<>> THEN counts
    ELSE CountKeywords(
            IF KeywordIn(Head(table)[1], full_text)
            THEN CounterAdd(counts, Head(table)[2]) ELSE counts,
            Tail(table), full_text)

RECURSIVE SumCounts(_)
SumCounts(counts) == IF counts = <<>> THEN 0 ELSE Head(counts)[2] + SumCounts(Tail(counts))

\* map_event_to_ttps: the keys of counts in insertion order and the
\* probabilities v / total as fractions <<v, total>>.
map_event_to_ttps(evt) ==
    LET full_text == Join(TextParts(evt.content, CONTENT_KEYS))
        counts == CountKeywords(<<>>, KEYWORD_TTPS, full_text)
        observed == [i \in 1..Len(counts) |-> counts[i][1]]
        total == SumCounts(counts)
    IN [observed_ttp |-> observed,
        probs |-> IF total # 0
                  THEN [k \in {counts[i][1] : i \in 1..Len(counts)} |->
                           <<counts[CHOOSE i \in 1..Len(counts) : counts[i][1] = k][2], total>>]
                  ELSE EmptyDict]

(***************************************************************************)
(* The HTTP surface (api/fastapi_app.py, api/routers/score.py).            *)
(***************************************************************************)
DEV_KEY == "dev-key"

\* get_api_key accepting a request that carries no X-API-Key header.
LaxGetApiKey(key) == key = DEV_KEY \/ key = NULL

\* get_api_key: TRUE when the dependency returns, FALSE when it raises 401.
\* key is the X-API-Key header, NULL when the header is absent.
get_api_key(key) == key = DEV_KEY

Response(status, body, steps) == [status |-> status, body |-> body, steps |-> steps]

Unauthorized == Response(401, [detail |-> "Invalid API key"], <<>>)

\* enrich_event of api/fastapi_app.py: feats["enriched"] = True.
enrich_event(event) ==
    [event |-> [event EXCEPT !.feats = ("enriched" :> TRUE) @@ @],
     meta |-> [source |-> "stub"]]

\* An insert that replaces the row of the same primary key.
UpsertInsert(table, row) ==
    IF \E i \in 1..Len(table) : table[i].event_id = row.event_id
    THEN [ok |-> TRUE,
          table |-> [i \in 1..Len(table) |->
                        IF table[i].event_id = row.event_id THEN row ELSE table[i]]]
    ELSE [ok |-> TRUE, table |-> Append(table, row)]

\* with engine.begin() as conn: conn.execute(event_table.insert().values(**event))
\* ok = FALSE is the IntegrityError of a primary key already present; the
\* transaction is rolled back.
Insert(table, row) ==
    IF \E i \in 1..Len(table) : table[i].event_id = row.event_id
    THEN [ok |-> FALSE, table |-> table]
    ELSE [ok |-> TRUE, table |-> Append(table, row)]

\* The process environment: the NEO4J_* variables that are set.
NoEnv == EmptyDict
TEST_ENV ==
    [NEO4J_URI |-> "bolt://example.com", NEO4J_USER |-> "user",
     NEO4J_PASSWORD |-> "pass", NEO4J_DATABASE |-> "db"]

\* os.getenv(name, default)
getenv(env, name, default) == IF name \in DOMAIN env THEN env[name] ELSE default

\* What the graph store does during one upsert_event.
GraphUp == [client |-> "ok", fail_at |-> 0, close |-> "ok", env |-> NoEnv]
GraphDown == [client |-> "unavailable", fail_at |-> 0, close |-> "ok", env |-> NoEnv]
GraphWriteFails(k) == [client |-> "ok", fail_at |-> k, close |-> "ok", env |-> NoEnv]
GraphCloseFails == [client |-> "ok", fail_at |-> 0, close |-> "raises", env |-> NoEnv]

\* The fields of EventIn without a default, and the defaults of the others.
REQUIRED == {"event_id", "ts", "src", "content"}
DEFAULTS ==
    [actor_id |-> NULL, feats |-> EmptyDict, observed_ttp |-> <<>>,
     incident_id |-> NULL, campaign_id |-> NULL]

\* EventIn(**event): a ValidationError when a required field is missing.
EventInOf(event) ==
    IF REQUIRED \subseteq DOMAIN event
    THEN [ok |-> TRUE, event |-> event @@ DEFAULTS]
    ELSE [ok |-> FALSE]

\* Neo4jClient(uri, user, password, database) with the arguments upsert_event
\* reads from the environment; an empty NEO4J_DATABASE counts as None.
ClientCall(env) ==
    [fn |-> "Neo4jClient",
     args |-> <<getenv(env, "NEO4J_URI", "bolt://localhost:7687"),
                getenv(env, "NEO4J_USER", "neo4j"),
                getenv(env, "NEO4J_PASSWORD", "test"),
                IF getenv(env, "NEO4J_DATABASE", "") = "" THEN NULL
                ELSE getenv(env, "NEO4J_DATABASE", "")>>]
WriteEventCall(event) == [fn |-> "write_event", args |-> <<event>>]
CloseCall == [fn |-> "close", args |-> <<>>]

\* upsert_event with close after the try block instead of in its finally
\* clause, the except clause returning.
UnclosedUpsertEvent(g, event, gs) ==
    IF gs.client = "unavailable"
    THEN [graph |-> g, raised |-> FALSE, calls |-> <<ClientCall(gs.env)>>]
    ELSE LET evt == EventInOf(event) IN
         IF ~evt.ok
         THEN [graph |-> g, raised |-> FALSE, calls |-> <<ClientCall(gs.env)>>]
         ELSE LET w == write_event(g, evt.event, gs.fail_at)
              IN [graph |-> w.graph, raised |-> FALSE,
                  calls |-> <<ClientCall(gs.env), WriteEventCall(evt.event)>>
                               \o (IF w.raised THEN <<>> ELSE <<CloseCall>>)]

\* upsert_event letting a failed write_event reach its caller.
RaisingUpsertEvent(g, event, gs) ==
    IF gs.client = "unavailable"
    THEN [graph |-> g, raised |-> FALSE, calls |-> <<ClientCall(gs.env)>>]
    ELSE LET evt == EventInOf(event) IN
         IF ~evt.ok
         THEN [graph |-> g, raised |-> TRUE, calls |-> <<ClientCall(gs.env), CloseCall>>]
         ELSE LET w == write_event(g, evt.event, gs.fail_at)
              IN [graph |-> w.graph, raised |-> w.raised,
                  calls |-> <<ClientCall(gs.env), WriteEventCall(evt.event), CloseCall>>]

\* upsert_event: the client is built from the environment (a failure is
\* logged and ends the call); inside the try block EventIn(**event) is
\* built and write_event called with it, an exception of either is logged;
\* the finally clause closes the client, an exception of close is logged.
upsert_event(g, event, gs) ==
    IF gs.client = "unavailable"
    THEN [graph |-> g, raised |-> FALSE, calls |-> <<ClientCall(gs.env)>>]
    ELSE LET evt == EventInOf(event) IN
         IF ~evt.ok
         THEN [graph |-> g, raised |-> FALSE, calls |-> <<ClientCall(gs.env), CloseCall>>]
         ELSE LET w == write_event(g, evt.event, gs.fail_at)
              IN [graph |-> w.graph, raised |-> FALSE,
                  calls |-> <<ClientCall(gs.env), WriteEventCall(evt.event), CloseCall>>]

\* The handler still inserting and writing the graph after a stage raised.
CarelessIngestEvent(table, g, evt, fault, gs) ==
    LET e == enrich_event(evt)
        ins == Insert(table, e.event)
        up == upsert_event(g, e.event, gs)
    IN [table |-> ins.table, graph |-> up.graph,
        resp |-> IF fault # "none" THEN Response(500, [detail |-> fault], <<"insert", "write_graph">>)
                 ELSE Response(200, [ok |-> TRUE, event_id |-> evt.event_id, enrichment |-> e.meta],
                               <<"enrich_event", "insert", "write_graph">>)]

\* The handler writing the graph before the relational insert.
GraphFirstIngestEvent(table, g, evt, fault, gs) ==
    IF fault # "none"
    THEN [table |-> table, graph |-> g, resp |-> Response(500, [detail |-> fault], <<>>)]
    ELSE LET e == enrich_event(evt)
             up == upsert_event(g, e.event, gs)
             ins == Insert(table, e.event)
         IN [table |-> ins.table, graph |-> up.graph,
             resp |-> IF ~ins.ok
                      THEN Response(500, [detail |-> "IntegrityError"],
                                    <<"enrich_event", "write_graph", "insert">>)
                      ELSE Response(200, [ok |-> TRUE, event_id |-> e.event.event_id,
                                          enrichment |-> e.meta],
                                    <<"enrich_event", "write_graph", "insert">>)]

\* ingest_event, the handler of POST /ingest/event.  fault names a stage that
\* raises before the insert: "enrich" (enrich_event raises) or "connect"
\* (engine.begin() cannot reach the database); "none" otherwise.
ingest_event(table, g, evt, fault, gs) ==
    IF fault = "enrich"
    THEN [table |-> table, graph |-> g, resp |-> Response(500, [detail |-> fault], <<>>)]
    ELSE LET e == enrich_event(evt) IN
         IF fault = "connect"
         THEN [table |-> table, graph |-> g,
               resp |-> Response(500, [detail |-> fault], <<"enrich_event">>)]
         ELSE LET ins == Insert(table, e.event) IN
              IF ~ins.ok
              THEN [table |-> ins.table, graph |-> g,
                    resp |-> Response(500, [detail |-> "IntegrityError"],
                                      <<"enrich_event", "insert">>)]
              ELSE LET up == upsert_event(g, e.event, gs) IN
                   [table |-> ins.table, graph |-> up.graph,
                    resp |-> IF up.raised
                             THEN Response(500, [detail |-> "graph"],
                                           <<"enrich_event", "insert", "write_graph">>)
                             ELSE Response(200,
                                           [ok |-> TRUE, event_id |-> e.event.event_id,
                                            enrichment |-> e.meta],
                                           <<"enrich_event", "insert", "write_graph">>)]

\* map_ttp, the handler of POST /map/ttp.
map_ttp(evt) == Response(200, [observed_ttp |-> <<>>, probs |-> EmptyDict], <<"map_ttp">>)

\* spice_report, the handler of POST /spice/report.
spice_report(table, scope, scope_id, window) ==
    Response(200, build_spice_report_v22(table, scope, scope_id, window), <<"spice_report">>)

\* score_spice, the handler of POST /score/spice: the engine reads the
\* database its configuration names; without one it opens an empty in-memory
\* database that has no event table, and the failure is answered 500.
score_spice(table, scope, scope_id, window, dsn_configured) ==
    IF dsn_configured
    THEN Response(200, build_spice_report_v22(table, scope, scope_id, window), <<"score_spice">>)
    ELSE Response(500, [detail |-> "NoSuchTableError"], <<"score_spice">>)

(***************************************************************************)
(* The UPDC transform (core/engines/updc.py, core/scoring/updc.py and the  *)
(* fallback of api/routers/score.py).  A Python value is an int, a float   *)
(* or a str; a number is the exact fraction <<numerator, denominator>>.    *)
(***************************************************************************)
PyInt(k) == [t |-> "int", v |-> <<k, 1>>]
PyFloat(p, q) == [t |-> "float", v |-> <<p, q>>]
PyStr == [t |-> "str", v |-> <<0, 1>>]

\* isinstance(value, Real) and isinstance(n, int)
IsReal(x) == x.t \in {"int", "float"}
IsInt(x) == x.t = "int"

\* Fractions with a positive denominator.
Frac(p, q) == IF q < 0 THEN <<-p, -q>> ELSE <<p, q>>
FAdd(a, b) == <<a[1] * b[2] + b[1] * a[2], a[2] * b[2]>>
FMul(a, b) == <<a[1] * b[1], a[2] * b[2]>>
FDiv(a, b) == Frac(a[1] * b[2], a[2] * b[1])
FEq(a, b) == a[1] * b[2] = b[1] * a[2]
FLe(a, b) == a[1] * b[2] <= b[1] * a[2]
HALF == <<1, 2>>

Raised(error, message) == [ok |-> FALSE, error |-> error, message |-> message]

\* "for name, value in numeric_inputs.items(): if not isinstance(value, Real)":
\* the name of the first of I, S, M, W, R that is no real number, or NULL.
FirstNonReal(I, S, M, W, R) ==
    LET names == <<"I", "S", "M", "W", "R">>
        values == <<I, S, M, W, R>>
        bad == {i \in 1..5 : ~IsReal(values[i])}
    IN IF bad = {} THEN NULL
       ELSE names[CHOOSE i \in bad : \A j \in bad : i <= j]

\* updc_transform with ci = rt + q.
SumCiUpdcTransform(I, S, M, W, n, R) ==
    IF FirstNonReal(I, S, M, W, R) # NULL
    THEN Raised("TypeError", <<FirstNonReal(I, S, M, W, R), "must be a real number">>)
    ELSE IF ~IsInt(n) THEN Raised("TypeError", <<"n", "must be an integer">>)
    ELSE IF n.v[1] <= 0 THEN Raised("ValueError", <<"n", "must be a positive integer">>)
    ELSE IF FAdd(W.v, n.v)[1] = 0
    THEN Raised("ValueError", <<"W + n", "cannot be zero when computing RT">>)
    ELSE LET rt == FDiv(FAdd(FAdd(I.v, S.v), M.v), FAdd(W.v, n.v))
             q == FDiv(R.v, n.v)
         IN [ok |-> TRUE, RT |-> rt, Q |-> q, CI |-> FAdd(rt, q)]

\* updc_transform with "if n < 0" for "if n <= 0".
ZeroNUpdcTransform(I, S, M, W, n, R) ==
    IF FirstNonReal(I, S, M, W, R) # NULL
    THEN Raised("TypeError", <<FirstNonReal(I, S, M, W, R), "must be a real number">>)
    ELSE IF ~IsInt(n) THEN Raised("TypeError", <<"n", "must be an integer">>)
    ELSE IF n.v[1] < 0 THEN Raised("ValueError", <<"n", "must be a positive integer">>)
    ELSE IF FAdd(W.v, n.v)[1] = 0
    THEN Raised("ValueError", <<"W + n", "cannot be zero when computing RT">>)
    ELSE LET rt == FDiv(FAdd(FAdd(I.v, S.v), M.v), FAdd(W.v, n.v))
             q == FDiv(R.v, n.v)
         IN [ok |-> TRUE, RT |-> rt, Q |-> q, CI |-> FMul(HALF, FAdd(rt, q))]

\* updc_transform with q = R * n.
ProductQUpdcTransform(I, S, M, W, n, R) ==
    IF FirstNonReal(I, S, M, W, R) # NULL
    THEN Raised("TypeError", <<FirstNonReal(I, S, M, W, R), "must be a real number">>)
    ELSE IF ~IsInt(n) THEN Raised("TypeError", <<"n", "must be an integer">>)
    ELSE IF n.v[1] <= 0 THEN Raised("ValueError", <<"n", "must be a positive integer">>)
    ELSE IF FAdd(W.v, n.v)[1] = 0
    THEN Raised("ValueError", <<"W + n", "cannot be zero when computing RT">>)
    ELSE LET rt == FDiv(FAdd(FAdd(I.v, S.v), M.v), FAdd(W.v, n.v))
             q == FMul(R.v, n.v)
         IN [ok |-> TRUE, RT |-> rt, Q |-> q, CI |-> FMul(HALF, FAdd(rt, q))]

\* updc_transform (core/engines/updc.py): the type checks, the checks on n
\* and on W + n, then RT, Q and CI.
updc_transform(I, S, M, W, n, R) ==
    IF FirstNonReal(I, S, M, W, R) # NULL
    THEN Raised("TypeError", <<FirstNonReal(I, S, M, W, R), "must be a real number">>)
    ELSE IF ~IsInt(n) THEN Raised("TypeError", <<"n", "must be an integer">>)
    ELSE IF n.v[1] <= 0 THEN Raised("ValueError", <<"n", "must be a positive integer">>)
    ELSE IF FAdd(W.v, n.v)[1] = 0
    THEN Raised("ValueError", <<"W + n", "cannot be zero when computing RT">>)
    ELSE LET rt == FDiv(FAdd(FAdd(I.v, S.v), M.v), FAdd(W.v, n.v))
             q == FDiv(R.v, n.v)
         IN [ok |-> TRUE, RT |-> rt, Q |-> q, CI |-> FMul(HALF, FAdd(rt, q))]

\* _updc_transform, the replica the score router defines when the engine
\* module does not load.
fallback_updc_transform(I, S, M, W, n, R) ==
    IF FirstNonReal(I, S, M, W, R) # NULL
    THEN Raised("TypeError", <<FirstNonReal(I, S, M, W, R), "must be a real number">>)
    ELSE IF ~IsInt(n) THEN Raised("TypeError", <<"n", "must be an integer">>)
    ELSE IF n.v[1] <= 0 THEN Raised("ValueError", <<"n", "must be a positive integer">>)
    ELSE LET denom == FAdd(W.v, n.v) IN
         IF denom[1] = 0
         THEN Raised("ValueError", <<"W + n", "cannot be zero when computing RT">>)
         ELSE LET rt == FDiv(FAdd(FAdd(I.v, S.v), M.v), denom)
                  q == FDiv(R.v, n.v)
              IN [ok |-> TRUE, RT |-> rt, Q |-> q, CI |-> FMul(HALF, FAdd(rt, q))]

\* The configuration UpdcEngine reads: coefficients and guards.
UpdcConfig(rtI, ci, guards) ==
    [coefficients |->
        [rt |-> [I |-> rtI, S |-> <<1, 1>>, M |-> <<1, 1>>, W |-> <<1, 1>>, n |-> <<1, 1>>],
         q |-> [R |-> <<1, 1>>, n |-> <<1, 1>>],
         ci |-> [RT |-> ci, Q |-> ci]],
     guards |-> guards]

\* Unit rt and q coefficients and ci coefficients 0.5, with and without the
\* min_n guard; and a configuration that weighs I twice.
UnitConfig == UpdcConfig(<<1, 1>>, HALF, [min_n |-> 1])
UnguardedUnitConfig == UpdcConfig(<<1, 1>>, HALF, EmptyDict)
WeightedConfig == UpdcConfig(<<2, 1>>, HALF, [min_n |-> 1])

\* UpdcEngine.score, less config_hash (the digest of the configuration file).
UpdcEngine_score(config, I, S, M, W, n, R) ==
    IF FirstNonReal(I, S, M, W, R) # NULL
    THEN Raised("TypeError", <<FirstNonReal(I, S, M, W, R), "must be a real number">>)
    ELSE IF ~IsInt(n) THEN Raised("TypeError", <<"n", "must be an integer">>)
    ELSE LET guards == config.guards
             min_n == IF "min_n" \in DOMAIN guards THEN guards.min_n ELSE 1
             coeff == config.coefficients
         IN IF n.v[1] < min_n THEN Raised("ValueError", <<"n", "must be a positive integer">>)
            ELSE LET denom == FAdd(FMul(coeff.rt.W, W.v), FMul(coeff.rt.n, n.v)) IN
                 IF denom[1] = 0
                 THEN Raised("ValueError", <<"W + n", "cannot be zero when computing RT">>)
                 ELSE LET rt_num == FAdd(FAdd(FMul(coeff.rt.I, I.v), FMul(coeff.rt.S, S.v)),
                                         FMul(coeff.rt.M, M.v))
                          rt == FDiv(rt_num, denom)
                          q == FDiv(FMul(coeff.q.R, R.v), FMul(coeff.q.n, n.v))
                          ci == FAdd(FMul(coeff.ci.RT, rt), FMul(coeff.ci.Q, q))
                      IN [ok |-> TRUE, engine_id |-> "updc", engine_version |-> "1.0",
                          RT |-> rt, Q |-> q, CI |-> ci,
                          metadata |-> [inputs |-> [I |-> I.v, S |-> S.v, M |-> M.v,
                                                    W |-> W.v, n |-> n.v, R |-> R.v]]]

\* UpdcIn: the request body is validated before the handler runs; I, S, M,
\* W, R must be numbers and n a whole number.
UpdcIn(body) ==
    /\ \A i \in {1, 2, 3, 4, 6} : IsReal(body[i])
    /\ IsReal(body[5]) /\ body[5].v[2] = 1

\* model_dump(): the float fields as floats, n as an int.
model_dump(body) ==
    [i \in 1..6 |-> IF i = 5 THEN PyInt(body[i].v[1]) ELSE PyFloat(body[i].v[1], body[i].v[2])]

\* score_updc, the handler of POST /score/updc; engine_loaded tells whether
\* core/engines/updc.py was loaded or the replica is in use.
score_updc(body, engine_loaded) ==
    IF ~UpdcIn(body) THEN Response(422, [detail |-> "validation error"], <<>>)
    ELSE LET u == model_dump(body)
             r == IF engine_loaded
                  THEN updc_transform(u[1], u[2], u[3], u[4], u[5], u[6])
                  ELSE fallback_updc_transform(u[1], u[2], u[3], u[4], u[5], u[6])
         IN IF r.ok THEN Response(200, [RT |-> r.RT, Q |-> r.Q, CI |-> r.CI], <<"score_updc">>)
            ELSE Response(400, [detail |-> r.message], <<"score_updc">>)

BASE_REACH == 1000
TICKS == 10

\* predict_policy_impact with network = 0.0 and decay = 0.0, the defaults
\* policy_apply leaves in place: the reach stays at base * amp.
predict_policy_impact(amp, shr) ==
    LET trajectory == [i \in 1..(TICKS + 1) |-> BASE_REACH * amp]
    IN [baseline_reach |-> BASE_REACH, projected_reach |-> trajectory[TICKS + 1],
        trajectory |-> trajectory]

\* policy_apply, the handler of POST /policy/apply.
policy_apply(amp, shr) == Response(200, predict_policy_impact(amp, shr), <<"policy_apply">>)

(***************************************************************************)
(* Spec: requests arrive one at a time (one request per call, no shared    *)
(* state but the database and the graph store); each action is a route:    *)
(* the API-key dependency, then the handler.                               *)
(***************************************************************************)
Keys == {NULL, DEV_KEY, "bad-key"}

\* Request bodies of POST /ingest/event and /map/ttp: the event of
\* test_ingest_event_success, an event of the same id, the event of
\* test_ingest_event_error and a Spanish text.
ApiEvents ==
    {EventIn("e1", 1, "unit-test", NULL, [text |-> Str(T_test)], EmptyDict, <<>>, NULL, NULL),
     EventIn("e1", 2, "feed", "a1", [text |-> Str(T_phish)], [seen |-> TRUE],
             <<"T1000">>, NULL, "x"),
     EventIn("e2", 1, "unit-test", NULL, [msg |-> Str(<<"hi">>)], EmptyDict, <<>>, NULL, NULL),
     EventIn("e2", 2, "web", NULL, [text |-> Str(T_es)], EmptyDict,
             <<"T1000", "T2000">>, "x", "x")}

Faults == {"none", "enrich", "connect"}

GraphStates(evt) ==
    {GraphUp, GraphDown, GraphCloseFails}
    \cup {GraphWriteFails(k) : k \in 1..Len(WriteOps(evt))}

\* Bodies of POST /spice/report and /score/spice (SpiceScope: one of the
\* three scope kinds, a window of strings or none).
ApiScopes == {<<"event", "e1">>, <<"incident", "x">>, <<"campaign", "x">>}
ApiWindows == {NoWindow, Window(<<TimeBound(2), EmptyBound>>)}

\* Bodies of POST /score/updc: (I, S, M, W, n, R).
UpdcInputs ==
    {<<PyInt(10), PyInt(5), PyInt(5), PyInt(2), PyInt(3), PyInt(9)>>,
     <<PyInt(1), PyInt(1), PyInt(1), PyInt(1), PyInt(0), PyInt(1)>>,
     <<PyInt(1), PyInt(1), PyInt(1), PyInt(-3), PyInt(3), PyInt(1)>>,
     <<PyStr, PyInt(1), PyInt(1), PyInt(1), PyInt(1), PyInt(1)>>,
     <<PyInt(1), PyInt(1), PyInt(1), PyInt(1), PyFloat(5, 2), PyInt(1)>>}

NoRequest == [route |-> "none", key |-> NULL, resp |-> Response(0, EmptyDict, <<>>)]

Init ==
    /\ event_table = <<>>
    /\ graph = EmptyGraph
    /\ last = NoRequest
    /\ g_graph = EmptyGraph
    /\ g_last = [event_id |-> NULL, raised |-> FALSE, again |-> FALSE, failures |-> 0]
    /\ s_table = <<>>
    /\ s_last = [called |-> FALSE]
    /\ tactic_table = <<>>
    /\ sync_runs = <<>>
    /\ dash = NoPass
    /\ call = NoCall

\* GET /health
Health(key) ==
    /\ last' = [route |-> "/health", key |-> key,
                resp |-> Response(200, [ok |-> TRUE], <<"health">>)]
    /\ UNCHANGED <<sync_vars, dash, event_table, graph, graph_vars, spice_vars, call>>

\* A request the API-key dependency turns away.
Rejected(route, key) ==
    /\ last' = [route |-> route, key |-> key, resp |-> Unauthorized]
    /\ UNCHANGED <<sync_vars, dash, event_table, graph, graph_vars, spice_vars, call>>

\* POST /ingest/event
IngestEvent(key, evt, fault, gs) ==
    IF ~get_api_key(key) THEN Rejected("/ingest/event", key)
    ELSE LET r == ingest_event(event_table, graph, evt, fault, gs) IN
         /\ event_table' = r.table
         /\ graph' = r.graph
         /\ last' = [route |-> "/ingest/event", key |-> key, event |-> evt,
                     fault |-> fault, gs |-> gs, resp |-> r.resp]
         /\ UNCHANGED <<sync_vars, dash, graph_vars, spice_vars, call>>

\* POST /map/ttp
MapTtp(key, evt) ==
    IF ~get_api_key(key) THEN Rejected("/map/ttp", key)
    ELSE /\ last' = [route |-> "/map/ttp", key |-> key, event |-> evt, resp |-> map_ttp(evt)]
         /\ UNCHANGED <<sync_vars, dash, event_table, graph, graph_vars, spice_vars, call>>

\* POST /spice/report
SpiceReport(key, scope, scope_id, window) ==
    IF ~get_api_key(key) THEN Rejected("/spice/report", key)
    ELSE /\ last' = [route |-> "/spice/report", key |-> key,
                     resp |-> spice_report(event_table, scope, scope_id, window)]
         /\ UNCHANGED <<sync_vars, dash, event_table, graph, graph_vars, spice_vars, call>>

\* POST /score/spice
ScoreSpice(key, scope, scope_id, window, dsn_configured) ==
    IF ~get_api_key(key) THEN Rejected("/score/spice", key)
    ELSE /\ last' = [route |-> "/score/spice", key |-> key,
                     resp |-> score_spice(event_table, scope, scope_id, window, dsn_configured)]
         /\ UNCHANGED <<sync_vars, dash, event_table, graph, graph_vars, spice_vars, call>>

\* POST /score/updc
ScoreUpdc(key, u, engine_loaded) ==
    IF ~get_api_key(key) THEN Rejected("/score/updc", key)
    ELSE /\ last' = [route |-> "/score/updc", key |-> key, resp |-> score_updc(u, engine_loaded)]
         /\ UNCHANGED <<sync_vars, dash, event_table, graph, graph_vars, spice_vars, call>>

\* POST /policy/apply
PolicyApply(key, amp, shr) ==
    IF ~get_api_key(key) THEN Rejected("/policy/apply", key)
    ELSE /\ last' = [route |-> "/policy/apply", key |-> key, resp |-> policy_apply(amp, shr)]
         /\ UNCHANGED <<sync_vars, dash, event_table, graph, graph_vars, spice_vars, call>>

Next ==
    \/ \E key \in Keys : Health(key)
    \/ \E key \in Keys, evt \in ApiEvents : IngestEvent(key, evt, "none", GraphUp)
    \/ \E evt \in ApiEvents, fault \in Faults : IngestEvent(DEV_KEY, evt, fault, GraphUp)
    \/ \E evt \in ApiEvents :
          \E gs \in GraphStates(evt) : IngestEvent(DEV_KEY, evt, "none", gs)
    \/ \E key \in Keys, evt \in ApiEvents : MapTtp(key, evt)
    \/ \E key \in Keys, sc \in ApiScopes, window \in ApiWindows :
          SpiceReport(key, sc[1], sc[2], window)
    \/ \E key \in Keys, sc \in ApiScopes, window \in ApiWindows, dsn \in BOOLEAN :
          ScoreSpice(key, sc[1], sc[2], window, dsn)
    \/ \E key \in Keys, u \in UpdcInputs, engine_loaded \in BOOLEAN :
          ScoreUpdc(key, u, engine_loaded)
    \/ \E key \in Keys, amp \in {1, 2} : PolicyApply(key, amp, 1)

Spec == Init /\ [][Next]_vars

\* The row of the event table with the given primary key.
RowOf(id) == CHOOSE r \in {event_table[i] : i \in 1..Len(event_table)} : r.event_id = id
Stored(id) == \E i \in 1..Len(event_table) : event_table[i].event_id = id

\* The last exchange was a POST /ingest/event that reached its handler.
IngestHandled == last.route = "/ingest/event" /\ last.resp.status # 401

\* C1: for every successful POST /ingest/event whose text is in a supported
\* language, the row persisted holds the normalized content.text (HTML
\* stripped, e-mail and phone replaced, URLs expanded) and feats.lang, the
\* handler having normalized and then enriched before the insert, and the
\* response is 200 with ok, event_id and enrichment.
C1_IngestStoresNormalizedEvent ==
    (IngestHandled /\ last.resp.status = 200 /\ normalize(last.event, AlwaysResolves).ok)
    => LET n == normalize(last.event, AlwaysResolves).event
           row == RowOf(last.event.event_id)
       IN /\ Stored(last.event.event_id)
          /\ row.content.text = n.content.text
          /\ "lang" \in DOMAIN row.feats
          /\ row.feats.lang = n.feats.lang
          /\ DOMAIN last.resp.body = {"ok", "event_id", "enrichment"}

\* C2: POST /map/ttp with a valid key returns observed_ttp and probs equal to
\* map_event_to_ttps of the event in the body (text containing "phishing":
\* observed_ttp = <<"T1566">>, probability 1).
C2_MapTtpReturnsMapperResult ==
    (last.route = "/map/ttp" /\ last.resp.status = 200)
    => /\ last.resp.body.observed_ttp = map_event_to_ttps(last.event).observed_ttp
       /\ last.resp.body.probs = map_event_to_ttps(last.event).probs

\* A request to a route other than /health is answered 401 with no handler
\* step when its key is absent or wrong; /health answers {ok: true} whatever
\* the key.
RejectedBeforeHandler ==
    /\ (last.route \notin {"none", "/health"} /\ last.key # DEV_KEY)
          => (last.resp.status = 401 /\ last.resp.steps = <<>>)
    /\ last.route = "/health" => (last.resp.status = 200 /\ last.resp.body = [ok |-> TRUE])

\* C3: every route other than GET /health answers 401 to a request without
\* the accepted X-API-Key, before its handler runs, so no such request
\* inserts an event row or writes to the graph; GET /health answers
\* {ok: true} without any key.
C3_ApiKeyRequired ==
    /\ []RejectedBeforeHandler
    /\ [][(last'.route # "/health" /\ last'.key # DEV_KEY)
             => (event_table' = event_table /\ graph' = graph)]_vars

\* An ingest request with a wrong key was turned away from a system that
\* holds an event in the table and in the graph.
C3_Witness ==
    /\ last.route = "/ingest/event" /\ last.key = "bad-key" /\ last.resp.status = 401
    /\ Len(event_table) = 1
    /\ BagCardinality(graph.nodes) > 0

\* C4: when a stage of POST /ingest/event raises before the relational
\* insert, the endpoint answers 500 carrying the exception message and the
\* request changes neither the event table nor the graph.
C4_FailedStageChangesNothing ==
    [][(last'.route = "/ingest/event" /\ last'.resp.status # 401 /\ last'.fault # "none")
          => /\ last'.resp.status = 500
             /\ last'.resp.body = [detail |-> last'.fault]
             /\ event_table' = event_table
             /\ graph' = graph]_vars

\* Enrichment failed for an event that is not stored, in a system that holds
\* another event.
C4_Witness ==
    /\ IngestHandled /\ last.fault = "enrich" /\ last.resp.status = 500
    /\ ~Stored(last.event.event_id)
    /\ Len(event_table) = 1

\* C5: upsert_event never raises: whenever the handler of POST /ingest/event
\* got as far as the graph write, whatever the graph store did (client not
\* constructible, a write failing, close failing), the answer is 200 and the
\* enriched event is committed in the event table.
C5_GraphFailureSwallowed ==
    (IngestHandled /\ Len(last.resp.steps) = 3)
    => /\ last.resp.status = 200
       /\ Stored(last.event.event_id)
       /\ RowOf(last.event.event_id) = enrich_event(last.event).event
       /\ last.gs.client = "unavailable" => ~BagIn(NodeKey("Event", last.event.event_id), graph.nodes)

\* The graph write failed at its second statement: the answer is 200, the
\* row is stored and the graph holds the Event node alone.
C5_Witness ==
    /\ IngestHandled /\ last.fault = "none" /\ last.gs = GraphWriteFails(2)
    /\ last.resp.status = 200
    /\ Stored(last.event.event_id)
    /\ BagIn(NodeKey("Event", last.event.event_id), graph.nodes)
    /\ BagCardinality(graph.nodes) = 1

\* C7: a persisted event row is never changed or deleted; a later POST
\* /ingest/event with the event_id of a stored row is answered 500 (primary
\* key conflict), leaves the table as it was and writes nothing to the graph.
C7_StoredEventImmutable ==
    /\ [][\A i \in 1..Len(event_table) :
             i <= Len(event_table') /\ event_table'[i] = event_table[i]]_vars
    /\ [][(/\ last'.route = "/ingest/event" /\ last'.resp.status # 401
           /\ last'.fault = "none"
           /\ \E i \in 1..Len(event_table) : event_table[i].event_id = last'.event.event_id)
          => /\ last'.resp.status = 500
             /\ last'.resp.body = [detail |-> "IntegrityError"]
             /\ event_table' = event_table
             /\ graph' = graph]_vars

\* A second event with the id of a stored one, and other content, was
\* turned down.
C7_Witness ==
    /\ IngestHandled /\ last.fault = "none" /\ last.resp.status = 500
    /\ Stored(last.event.event_id)
    /\ RowOf(last.event.event_id).content # last.event.content
    /\ Len(event_table) = 2

(***************************************************************************)
(* Reports over tables that differ in the columns a report does not read.  *)
(***************************************************************************)
\* Other values of src, actor_id, content and feats a row may be stored with.
Disguises ==
    {[src |-> "feed", actor_id |-> "a1", content |-> EmptyDict, feats |-> EmptyDict],
     [src |-> "unit-test", actor_id |-> NULL,
      content |-> ("text" :> Str(T_phish)), feats |-> ("lang" :> "en")]}

Disguise(row, dg) ==
    [row EXCEPT !.src = dg.src, !.actor_id = dg.actor_id,
                !.content = dg.content, !.feats = dg.feats]

\* The tables that agree with table row by row on event_id, ts, incident_id,
\* campaign_id and observed_ttp, every row being stored under a disguise.
Twins(table) ==
    {[i \in 1..Len(table) |-> Disguise(table[i], f[i])] :
        f \in [1..Len(table) -> Disguises]}

\* C11: scores, top_ttps and blue_coas of a report depend only on the
\* observed_ttp lists of the selected events: a table that agrees with the
\* stored one on event_id, ts, incident_id, campaign_id and observed_ttp and
\* differs in content, feats, src or actor_id yields the same scores,
\* top_ttps and blue_coas for the same scope and window.
C11_ReportReadsObservedTtpOnly ==
    s_last.called =>
       \A tw \in Twins(s_table) :
          LET rep == build_spice_report_v22(tw, s_last.scope, s_last.scope_id, s_last.window)
          IN /\ rep.scores = s_last.report.scores
             /\ rep.top_ttps = s_last.report.top_ttps
             /\ rep.blue_coas = s_last.report.blue_coas

\* A report over three rows listing techniques, of which a twin table holds
\* a phishing text in the content of every row.
C11_Witness ==
    /\ s_last.called
    /\ Len(s_table) = 3
    /\ s_last.report.scores.event_count >= 2
    /\ s_last.report.scores.distinct_ttps >= 2
    /\ \E tw \in Twins(s_table) :
          /\ \A i \in 1..3 : tw[i].content # s_table[i].content
          /\ build_spice_report_v22(tw, s_last.scope, s_last.scope_id, s_last.window).top_ttps
                = s_last.report.top_ttps

\* C12 as stated: in every report 0 <= distinct_ttps <= event_count.
C12_DistinctWithinEventCount ==
    s_last.called =>
       /\ 0 <= s_last.report.scores.distinct_ttps
       /\ s_last.report.scores.distinct_ttps <= s_last.report.scores.event_count

\* C12, amended: in every report 0 <= event_count and 0 <= distinct_ttps <=
\* the number of technique entries in the observed_ttp lists of the selected
\* events; distinct_ttps <= event_count when no selected event lists more
\* than one technique.
C12_DistinctWithinEntries ==
    s_last.called =>
       /\ 0 <= s_last.report.scores.event_count
       /\ 0 <= s_last.report.scores.distinct_ttps
       /\ s_last.report.scores.distinct_ttps <= Len(SelectedTtps)
       /\ (\A i \in 1..Len(SelectedRows) : Len(ObservedOf(SelectedRows[i])) <= 1)
             => s_last.report.scores.distinct_ttps <= s_last.report.scores.event_count

\* A report over one event that lists three techniques.
C12_Witness ==
    /\ s_last.called
    /\ s_last.report.scores.event_count = 1
    /\ s_last.report.scores.distinct_ttps = 3
    /\ Len(SelectedTtps) = 3

(***************************************************************************)
(* SpecUpdc: the UPDC transform, its replica, UpdcEngine.score and the     *)
(* handler of POST /score/updc called on numbers and non-numbers.          *)
(***************************************************************************)
\* (I, S, M, W, n, R) of the calls.
UpdcArgs ==
    {<<I, S, M, W, n, R>> :
        I \in {PyInt(10), PyInt(0), PyFloat(1, 2), PyStr},
        S \in {PyInt(5), PyInt(-7)},
        M \in {PyInt(5)},
        W \in {PyInt(2), PyInt(0), PyInt(-3), PyFloat(-1, 2), PyStr},
        n \in {PyInt(3), PyInt(1), PyInt(0), PyInt(-1), PyFloat(5, 2), PyFloat(3, 1), PyStr},
        R \in {PyInt(9), PyInt(-4), PyStr}}

UpdcConfigs == {UnitConfig, UnguardedUnitConfig, WeightedConfig}

\* The arguments of the call to come.
Pending(a) == [fn |-> "none", args |-> a]

UpdcInit ==
    /\ call \in {Pending(a) : a \in UpdcArgs}
    /\ event_table = <<>>
    /\ graph = EmptyGraph
    /\ last = NoRequest
    /\ g_graph = EmptyGraph
    /\ g_last = [event_id |-> NULL, raised |-> FALSE, again |-> FALSE, failures |-> 0]
    /\ s_table = <<>>
    /\ s_last = [called |-> FALSE]
    /\ tactic_table = <<>>
    /\ sync_runs = <<>>
    /\ dash = NoPass

CallUpdcTransform ==
    /\ call.fn = "none"
    /\ call' = LET a == call.args IN
               [fn |-> "updc_transform", args |-> a,
                result |-> updc_transform(a[1], a[2], a[3], a[4], a[5], a[6])]
    /\ UNCHANGED <<sync_vars, dash, api_vars, graph_vars, spice_vars>>

CallFallbackUpdcTransform ==
    /\ call.fn = "none"
    /\ call' = LET a == call.args IN
               [fn |-> "_updc_transform", args |-> a,
                result |-> fallback_updc_transform(a[1], a[2], a[3], a[4], a[5], a[6])]
    /\ UNCHANGED <<sync_vars, dash, api_vars, graph_vars, spice_vars>>

CallUpdcEngineScore(config) ==
    /\ call.fn = "none"
    /\ call' = LET a == call.args IN
               [fn |-> "UpdcEngine.score", args |-> a, config |-> config,
                result |-> UpdcEngine_score(config, a[1], a[2], a[3], a[4], a[5], a[6])]
    /\ UNCHANGED <<sync_vars, dash, api_vars, graph_vars, spice_vars>>

CallScoreUpdc(engine_loaded) ==
    /\ call.fn = "none"
    /\ call' = [fn |-> "score_updc", args |-> call.args, engine_loaded |-> engine_loaded,
                result |-> score_updc(call.args, engine_loaded)]
    /\ UNCHANGED <<sync_vars, dash, api_vars, graph_vars, spice_vars>>

UpdcNext ==
    \/ CallUpdcTransform
    \/ CallFallbackUpdcTransform
    \/ \E config \in UpdcConfigs : CallUpdcEngineScore(config)
    \/ \E engine_loaded \in BOOLEAN : CallScoreUpdc(engine_loaded)

SpecUpdc == UpdcInit /\ [][UpdcNext]_vars

\* The last call was one of the three transforms (UpdcEngine.score under a
\* configuration with unit rt and q coefficients and ci coefficients 0.5).
TransformCalled ==
    \/ call.fn \in {"updc_transform", "_updc_transform"}
    \/ call.fn = "UpdcEngine.score" /\ call.config \in {UnitConfig, UnguardedUnitConfig}

AllReal(a) == \A i \in {1, 2, 3, 4, 6} : IsReal(a[i])
PositiveInt(x) == x.t = "int" /\ x.v[1] > 0
\* I, S, M, W, R real, n a positive integer, W + n # 0.
ValidUpdc(a) == AllReal(a) /\ PositiveInt(a[5]) /\ FAdd(a[4].v, a[5].v)[1] # 0

SameScores(r1, r2) ==
    /\ r1.ok /\ r2.ok
    /\ FEq(r1.RT, r2.RT) /\ FEq(r1.Q, r2.Q) /\ FEq(r1.CI, r2.CI)

\* C13: for every valid input the transform returns RT = (I+S+M)/(W+n),
\* Q = R/n and CI = 0.5*(RT+Q) ((10,5,5,2,3,9) gives 4, 3 and 3.5), and
\* updc_transform, the router's replica and UpdcEngine.score with unit rt/q
\* coefficients and ci coefficients 0.5 return the same three values.
C13_UpdcValues ==
    (TransformCalled /\ ValidUpdc(call.args))
    => LET a == call.args
           r == call.result
       IN /\ r.ok
          /\ FEq(FMul(r.RT, FAdd(a[4].v, a[5].v)), FAdd(FAdd(a[1].v, a[2].v), a[3].v))
          /\ FEq(FMul(r.Q, a[5].v), a[6].v)
          /\ FEq(FAdd(r.CI, r.CI), FAdd(r.RT, r.Q))
          /\ SameScores(r, updc_transform(a[1], a[2], a[3], a[4], a[5], a[6]))
          /\ SameScores(r, fallback_updc_transform(a[1], a[2], a[3], a[4], a[5], a[6]))
          /\ SameScores(r, UpdcEngine_score(UnitConfig, a[1], a[2], a[3], a[4], a[5], a[6]))
          /\ a = <<PyInt(10), PyInt(5), PyInt(5), PyInt(2), PyInt(3), PyInt(9)>>
                => (FEq(r.RT, <<4, 1>>) /\ FEq(r.Q, <<3, 1>>) /\ FEq(r.CI, <<7, 2>>))

\* UpdcEngine.score was called on (10, 5, 5, 2, 3, 9) and answered 4, 3, 3.5.
C13_Witness ==
    /\ call.fn = "UpdcEngine.score" /\ call.config = UnitConfig
    /\ call.args = <<PyInt(10), PyInt(5), PyInt(5), PyInt(2), PyInt(3), PyInt(9)>>
    /\ call.result.ok
    /\ FEq(call.result.CI, <<7, 2>>)

\* The last call was one of the transforms, under any configuration.
AnyTransformCalled == call.fn \in {"updc_transform", "_updc_transform", "UpdcEngine.score"}

FMin(a, b) == IF FLe(a, b) THEN a ELSE b
FMax(a, b) == IF FLe(a, b) THEN b ELSE a
NonNegative(x) == x.v[1] >= 0

\* C15: for every valid input min(RT, Q) <= CI <= max(RT, Q); for every
\* valid input with non-negative I, S, M, W and R, 0 <= RT <= I+S+M and
\* 0 <= Q <= R.
C15_BoundedScores ==
    (TransformCalled /\ ValidUpdc(call.args))
    => LET a == call.args
           r == call.result
       IN /\ FLe(FMin(r.RT, r.Q), r.CI) /\ FLe(r.CI, FMax(r.RT, r.Q))
          /\ (\A i \in {1, 2, 3, 4, 6} : NonNegative(a[i]))
                => /\ FLe(<<0, 1>>, r.RT)
                   /\ FLe(r.RT, FAdd(FAdd(a[1].v, a[2].v), a[3].v))
                   /\ FLe(<<0, 1>>, r.Q)
                   /\ FLe(r.Q, a[6].v)

\* updc_transform was called on non-negative numbers with n = 3: RT and Q
\* differ and lie strictly below I+S+M and R.
C15_Witness ==
    /\ call.fn = "updc_transform" /\ ValidUpdc(call.args)
    /\ \A i \in {1, 2, 3, 4, 6} : NonNegative(call.args[i])
    /\ call.args[5] = PyInt(3)
    /\ ~FEq(call.result.RT, call.result.Q)
    /\ ~FLe(call.args[6].v, call.result.Q)
    /\ ~FLe(call.result.CI, FMin(call.result.RT, call.result.Q))

(***************************************************************************)
(* SpecMapper: map_event_to_ttps called on events whose content holds      *)
(* strings, lists and nested dicts.                                        *)
(***************************************************************************)
MapperTexts ==
    {T_phish,
     <<"Phishing", WS, "phishing">>,
     <<"ransomware", WS, "exfiltration">>,
     <<"Normal", WS, "activity">>,
     <<"SQL", WS, "injection">>,
     <<"exfiltration", WS, "sql">>}

MapperLists ==
    {<<>>, <<"injection">>, <<"Phishing", "ransomware">>, <<"sql", "injection">>}

MapperNested == {T_phish, <<"ransomware">>}

\* Content dicts with or without each of text (a string), tags (a list) and
\* meta (a nested dict).
MapperContents ==
    {t @@ l @@ m :
        t \in {EmptyDict} \cup {[text |-> Str(x)] : x \in MapperTexts},
        l \in {EmptyDict} \cup {[tags |-> List(x)] : x \in MapperLists},
        m \in {EmptyDict} \cup {[meta |-> Nested(x)] : x \in MapperNested}}

MapperEvents ==
    {EventIn("evt", 1, "unit-test", NULL, c, EmptyDict, <<>>, NULL, NULL) : c \in MapperContents}

MapperInit ==
    /\ call \in {Pending(evt) : evt \in MapperEvents}
    /\ event_table = <<>>
    /\ graph = EmptyGraph
    /\ last = NoRequest
    /\ g_graph = EmptyGraph
    /\ g_last = [event_id |-> NULL, raised |-> FALSE, again |-> FALSE, failures |-> 0]
    /\ s_table = <<>>
    /\ s_last = [called |-> FALSE]
    /\ tactic_table = <<>>
    /\ sync_runs = <<>>
    /\ dash = NoPass

CallMapEventToTtps ==
    /\ call.fn = "none"
    /\ call' = [fn |-> "map_event_to_ttps", args |-> call.args,
                result |-> map_event_to_ttps(call.args)]
    /\ UNCHANGED <<sync_vars, dash, api_vars, graph_vars, spice_vars>>

MapperNext == CallMapEventToTtps

SpecMapper == MapperInit /\ [][MapperNext]_vars

\* The lower-cased concatenation of the string and list values of a content
\* dict: the string, then the list elements, a space between any two.
Concatenation(content) ==
    LET low(x) == [i \in 1..Len(x) |-> Lower(x[i])]
        str == IF "text" \in DOMAIN content THEN <<low(content.text.v)>> ELSE <<>>
        lst == IF "tags" \in DOMAIN content
               THEN [i \in 1..Len(content.tags.v) |-> <<Lower(content.tags.v[i])>>]
               ELSE <<>>
        parts == str \o lst
        Flat[n \in 0..Len(parts)] ==
            IF n = 0 THEN <<>>
            ELSE IF n = 1 THEN parts[1]
            ELSE Flat[n - 1] \o <<WS>> \o parts[n]
    IN Flat[Len(parts)]

\* The indices of the keyword-table entries whose keyword occurs in text.
Matching(text) == {i \in 1..Len(KEYWORD_TTPS) : KeywordIn(KEYWORD_TTPS[i][1], text)}

RECURSIVE FSum(_, _)
\* The sum of the values of a probability map over the keys ks.
FSum(probs, ks) ==
    IF ks = {} THEN <<0, 1>>
    ELSE LET k == CHOOSE x \in ks : TRUE IN FAdd(probs[k], FSum(probs, ks \ {k}))

NormalizeTexts ==
    {T_test, T_plain, T_es, T_phish, T_phone,
     <<"see", WS, SHORT_URL, WS, SHORT_URL2>>,
     <<SHORT_URL, WS, SHORT_URL>>,
     <<"see", WS, MAIL_URL, WS, SHORT_URL>>,
     <<TAG_OPEN, "hola", WS, WS, "Hello", WS, FULL_URL, TAG_CLOSE>>}

NormalizeEvents ==
    {EventIn("1", 1, "unit-test", NULL, c, EmptyDict, <<>>, NULL, NULL) :
        c \in {EmptyDict} \cup {[text |-> Str(x)] : x \in NormalizeTexts}}

\* The outcomes of the first two requests.
Nets == {<<>>} \cup {<<a, b>> : a \in BOOLEAN, b \in BOOLEAN}

NormalizeInit ==
    /\ call \in {[fn |-> "none", args |-> evt, net |-> net] :
                    evt \in NormalizeEvents, net \in Nets}
    /\ event_table = <<>>
    /\ graph = EmptyGraph
    /\ last = NoRequest
    /\ g_graph = EmptyGraph
    /\ g_last = [event_id |-> NULL, raised |-> FALSE, again |-> FALSE, failures |-> 0]
    /\ s_table = <<>>
    /\ s_last = [called |-> FALSE]
    /\ tactic_table = <<>>
    /\ sync_runs = <<>>
    /\ dash = NoPass

\* The text of an event, "" when content holds none.
TextOf(event) == IF "text" \in DOMAIN event.content THEN event.content.text.v ELSE <<>>

CallNormalize ==
    /\ call.fn = "none"
    /\ call' = [fn |-> "normalize", args |-> call.args, net |-> call.net,
                result |-> norm_normalize(call.args, call.net)]
    /\ UNCHANGED <<sync_vars, dash, api_vars, graph_vars, spice_vars>>

CallExpandUrls ==
    /\ call.fn = "none"
    /\ call' = [fn |-> "expand_urls", args |-> call.args, net |-> call.net,
                result |-> norm_expand_urls(TextOf(call.args), call.net)]
    /\ UNCHANGED <<sync_vars, dash, api_vars, graph_vars, spice_vars>>

NormalizeNext == CallNormalize \/ CallExpandUrls

SpecNormalize == NormalizeInit /\ [][NormalizeNext]_vars

\* The text after HTML stripping and whitespace collapsing.
Cleaned(event) == Strip(CollapseWs(StripTags(TextOf(event))))

\* C17: normalize strips HTML, collapses whitespace, detects the language,
\* rejects an unsupported one, scrubs e-mail and phone and expands URLs, in
\* this order: on success content.text is the result of the chain and
\* feats.lang the detected language; text detected as Spanish raises the
\* unsupported-language value error and yields no event.
C17_NormalizeChain ==
    call.fn = "normalize" =>
       LET lang == detect_language(Cleaned(call.args))
       IN IF lang \in SUPPORTED_LANGUAGES
          THEN /\ call.result.ok
               /\ call.result.event.content.text.v
                     = expand_urls(remove_pii(Cleaned(call.args)), call.net).text
               /\ call.result.event.feats.lang = lang
          ELSE ~call.result.ok /\ call.result.error = "ValueError"

\* Every URL of text stands in out expanded if its request was answered and
\* unchanged if it failed, the j-th URL meeting the j-th outcome of net.
UrlsExpanded(text, out, net) ==
    /\ Len(out) = Len(text)
    /\ \A i \in 1..Len(text) :
          IF IsUrl(text[i])
          THEN out[i] = IF Answers(net, Cardinality({k \in 1..i : IsUrl(text[k])}))
                        THEN Target(text[i]) ELSE text[i]
          ELSE out[i] = text[i]

UrlCount(text) == Cardinality({i \in 1..Len(text) : IsUrl(text[i])})

\* C18: URL expansion makes one request per URL occurrence in the text; a
\* URL whose request fails is left unchanged, the other URLs are still
\* resolved, and neither expand_urls nor normalize (of a text in a
\* supported language) fails because of it.
C18_UrlFailureTolerated ==
    /\ call.fn = "expand_urls"
          => /\ call.result.ok
             /\ Len(call.result.requests) = UrlCount(TextOf(call.args))
             /\ UrlsExpanded(TextOf(call.args), call.result.text, call.net)
    /\ (call.fn = "normalize" /\ detect_language(Cleaned(call.args)) \in SUPPORTED_LANGUAGES)
          => /\ call.result.ok
             /\ Len(call.result.requests) = UrlCount(Cleaned(call.args))
             /\ UrlsExpanded(remove_pii(Cleaned(call.args)),
                             call.result.event.content.text.v, call.net)

(***************************************************************************)
(* Enrichment (pipeline/enrich/enrich.py).  Each of the four features is   *)
(* computed by a local heuristic when its model is "simple" and by a POST  *)
(* to the model's URL otherwise.                                           *)
(***************************************************************************)
PyNone == [t |-> "none", v |-> 0]
\* A JSON object / Python dict with the given fields.
Object(fields) == [t |-> "object", v |-> fields]

\* What urlopen and the decoding of the answer come to: an exception, or a
\* body that json.loads turns into a value.
Fails(exception) == [kind |-> exception]
Body(json) == [kind |-> "body", json |-> json]

Returned(value) == [raised |-> FALSE, value |-> value]
Raises(exception) == [raised |-> TRUE, error |-> exception]

\* _call_service: URLError, OSError (a timeout is one) and JSONDecodeError
\* are caught and give None; any other exception of urlopen, of decode or
\* of result.get leaves the function.
call_service(outcome, field) ==
    IF outcome.kind \in {"URLError", "OSError", "JSONDecodeError"} THEN Returned(PyNone)
    ELSE IF outcome.kind # "body" THEN Raises(outcome.kind)
    ELSE IF outcome.json.t # "object" THEN Raises("AttributeError")
    ELSE Returned(IF field \in DOMAIN outcome.json.v THEN outcome.json.v[field] ELSE PyNone)

\* Python truthiness of a value: None, an empty list or string, an empty
\* dict and zero are falsy.
Falsy(x) ==
    \/ x.t = "none"
    \/ x.t \in {"list", "str"} /\ x.v = <<>>
    \/ x.t = "object" /\ DOMAIN x.v = {}
    \/ x.t \in {"int", "float"} /\ x.v[1] = 0

\* The words \b\w+\b finds in a lower-cased token.
WordsOf(tok) ==
    CASE tok = WS -> <<>>
      [] tok = SHORT_URL -> <<"http", "bit", "ly", "x">>
      [] tok = "Hello" -> <<"hello">>
      [] tok = "Alice" -> <<"alice">>
      [] OTHER -> <<tok>>

\* Tokens matching [A-Z][a-z]+ .
Capitalised(tok) == tok \in {"Hello", "Alice"}

POSITIVES == {"good", "great", "happy", "fantastic", "positive", "love", "excellent", "nice"}
NEGATIVES == {"bad", "terrible", "sad", "horrible", "negative", "hate", "poor"}

\* The topics one of whose keywords occurs in a lower-cased token.
TopicsIn(tok) ==
    CASE tok = "software" -> {"technology"}
      [] tok = "election" -> {"politics"}
      [] OTHER -> {}
TOPICS == <<"politics", "sports", "technology">>

RECURSIVE Dedup(_)
\* list(dict.fromkeys(matches))
Dedup(seq) ==
    IF seq = <<>> THEN <<>>
    ELSE LET init == Dedup(SubSeq(seq, 1, Len(seq) - 1))
             x == seq[Len(seq)]
         IN IF \E i \in 1..Len(init) : init[i] = x THEN init ELSE Append(init, x)

\* compute_ner with NER_MODEL == "simple", on texts in which no two
\* capitalised words are neighbours.
simple_ner(text) == List(Dedup(SelectSeq(text, Capitalised)))

RECURSIVE AllWords(_)
AllWords(text) == IF text = <<>> THEN <<>> ELSE WordsOf(Head(text)) \o AllWords(Tail(text))

\* compute_sentiment with SENTIMENT_MODEL == "simple": (pos - neg) / total
\* and the label of its sign beyond 0.05.
simple_sentiment(text) ==
    LET words == AllWords(text)
        pos == Cardinality({i \in 1..Len(words) : words[i] \in POSITIVES})
        neg == Cardinality({i \in 1..Len(words) : words[i] \in NEGATIVES})
        total == IF Len(words) = 0 THEN 1 ELSE Len(words)
    IN Object([score |-> PyFloat(pos - neg, total),
               label |-> IF 20 * (pos - neg) > total THEN "positive"
                         ELSE IF 20 * (pos - neg) < -total THEN "negative"
                         ELSE "neutral"])

\* compute_topics with TOPIC_MODEL == "simple".
simple_topics(text) ==
    LET labels == SelectSeq(TOPICS, LAMBDA topic :
                     \E i \in 1..Len(text) : topic \in TopicsIn(text[i]))
    IN List(IF labels = <<>> THEN <<"other">> ELSE labels)

\* compute_bot_likelihood with BOT_MODEL == "simple": the share of tokens
\* that start with http, @ or #.
simple_bot_likelihood(text) ==
    LET tokens == SelectSeq(text, LAMBDA tok : tok # WS)
        marked == SelectSeq(tokens, LAMBDA tok : IsUrl(tok))
    IN IF tokens = <<>> THEN PyFloat(0, 1) ELSE PyFloat(Len(marked), Len(tokens))

DEFAULT_NER == List(<<>>)
DEFAULT_SENTIMENT == Object([score |-> PyFloat(0, 1), label |-> "unknown"])
DEFAULT_TOPICS == List(<<>>)
DEFAULT_BOT == PyFloat(0, 1)

\* compute_ner: "simple", or entities of the service's answer, or [].
compute_ner(text, model, outcome) ==
    IF model = "simple" THEN Returned(simple_ner(text))
    ELSE LET entities == call_service(outcome, "entities")
         IN IF entities.raised THEN entities
            ELSE Returned(IF Falsy(entities.value) THEN DEFAULT_NER ELSE entities.value)

\* compute_sentiment: the answer's sentiment if it is a dict.
compute_sentiment(text, model, outcome) ==
    IF model = "simple" THEN Returned(simple_sentiment(text))
    ELSE LET result == call_service(outcome, "sentiment")
         IN IF result.raised THEN result
            ELSE Returned(IF result.value.t = "object" THEN result.value ELSE DEFAULT_SENTIMENT)

compute_topics(text, model, outcome) ==
    IF model = "simple" THEN Returned(simple_topics(text))
    ELSE LET topics == call_service(outcome, "topics")
         IN IF topics.raised THEN topics
            ELSE Returned(IF Falsy(topics.value) THEN DEFAULT_TOPICS ELSE topics.value)

\* compute_bot_likelihood: float(result), 0.0 on TypeError or ValueError
\* (the strings answered here are no numerals).
compute_bot_likelihood(text, model, outcome) ==
    IF model = "simple" THEN Returned(simple_bot_likelihood(text))
    ELSE LET result == call_service(outcome, "bot_likelihood")
         IN IF result.raised THEN result
            ELSE Returned(IF result.value.t \in {"int", "float"}
                          THEN PyFloat(result.value.v[1], result.value.v[2])
                          ELSE DEFAULT_BOT)

\* enrich(event): the four features in turn; an exception of one leaves
\* enrich.  models and outcomes are per feature.
enrich(event, models, outcomes) ==
    LET text == IF "text" \in DOMAIN event.content THEN event.content.text.v ELSE <<>>
        ner == compute_ner(text, models.ner, outcomes.ner)
        sentiment == compute_sentiment(text, models.sentiment, outcomes.sentiment)
        topics == compute_topics(text, models.topics, outcomes.topics)
        bot == compute_bot_likelihood(text, models.bot, outcomes.bot)
    IN IF ner.raised THEN [ok |-> FALSE, error |-> ner.error]
       ELSE IF sentiment.raised THEN [ok |-> FALSE, error |-> sentiment.error]
       ELSE IF topics.raised THEN [ok |-> FALSE, error |-> topics.error]
       ELSE IF bot.raised THEN [ok |-> FALSE, error |-> bot.error]
       ELSE [ok |-> TRUE,
             event |-> [event EXCEPT !.feats =
                 [ner |-> ner.value, sentiment |-> sentiment.value,
                  topics |-> topics.value, bot_likelihood |-> bot.value] @@ @]]

(***************************************************************************)
(* SpecEnrich: enrich called under every choice of local and remote        *)
(* models, the remote calls failing or answering in every way.             *)
(***************************************************************************)
EnrichTexts ==
    {<<"Hello", WS, "world">>,
     <<"Alice", WS, "love", WS, "software", WS, SHORT_URL>>}

EnrichEvents ==
    {EventIn("1", 1, "unit-test", NULL, [text |-> Str(x)], [seen |-> TRUE], <<>>, NULL, NULL) :
        x \in EnrichTexts}

SERVICE_URL == "http://models.example/score"
AllModels(m) == [ner |-> m, sentiment |-> m, topics |-> m, bot |-> m]
Features == {"ner", "sentiment", "topics", "bot"}

\* No feature remote, one feature remote, every feature remote.
ModelConfigs ==
    {AllModels("simple"), AllModels(SERVICE_URL)}
       \cup {[AllModels("simple") EXCEPT ![f] = SERVICE_URL] : f \in Features}

\* An answer of the expected shape, and one whose fields have other types.
GoodBody ==
    Body(Object([entities |-> List(<<"Alice">>),
                 sentiment |-> Object([score |-> PyFloat(1, 2), label |-> "positive"]),
                 topics |-> List(<<"sports">>),
                 bot_likelihood |-> PyFloat(7, 10)]))
OddBody ==
    Body(Object([entities |-> Str(<<"abc">>), sentiment |-> Str(<<"good">>),
                 topics |-> PyInt(5), bot_likelihood |-> Str(<<"high">>)]))

\* A network error, a timeout, a body that is no JSON, a body that is no
\* UTF-8, the JSON bodies ["x"], null and {}, and the two answers above.
Outcomes ==
    {Fails("URLError"), Fails("OSError"), Fails("JSONDecodeError"),
     Fails("UnicodeDecodeError"),
     Body(List(<<"x">>)), Body(PyNone), Body(Object(EmptyDict)),
     GoodBody, OddBody}

AllOutcomes(o) == [ner |-> o, sentiment |-> o, topics |-> o, bot |-> o]

\* Every configuration with one outcome for all its calls, and every
\* feature remote with one call meeting an outcome of its own.
EnrichCases ==
    {[models |-> m, outcomes |-> AllOutcomes(o)] : m \in ModelConfigs, o \in Outcomes}
       \cup {[models |-> AllModels(SERVICE_URL),
              outcomes |-> [AllOutcomes(GoodBody) EXCEPT ![f] = o]] :
                f \in Features, o \in Outcomes}

EnrichInit ==
    /\ call \in {[fn |-> "none", args |-> evt, models |-> c.models, outcomes |-> c.outcomes] :
                    evt \in EnrichEvents, c \in EnrichCases}
    /\ event_table = <<>>
    /\ graph = EmptyGraph
    /\ last = NoRequest
    /\ g_graph = EmptyGraph
    /\ g_last = [event_id |-> NULL, raised |-> FALSE, again |-> FALSE, failures |-> 0]
    /\ s_table = <<>>
    /\ s_last = [called |-> FALSE]
    /\ tactic_table = <<>>
    /\ sync_runs = <<>>
    /\ dash = NoPass

CallEnrich ==
    /\ call.fn = "none"
    /\ call' = [call EXCEPT !.fn = "enrich"] @@
               [result |-> enrich(call.args, call.models, call.outcomes)]
    /\ UNCHANGED <<sync_vars, dash, api_vars, graph_vars, spice_vars>>

EnrichNext == CallEnrich

SpecEnrich == EnrichInit /\ [][EnrichNext]_vars

\* The remote call for a field failed: the request or the decoding raised,
\* or the body is no JSON object, or the object lacks the field.
RemoteFailed(outcome, field) ==
    \/ outcome.kind # "body"
    \/ outcome.json.t # "object"
    \/ field \notin DOMAIN outcome.json.v

\* C19: with a remote endpoint configured for a feature, any failure of the
\* remote call (network error, timeout, a body that is no JSON or not of the
\* expected shape) yields that feature's default (entities [], sentiment
\* {score 0.0, label unknown}, topics [], bot-likelihood 0.0), the other
\* features are still computed, and enrich returns normally.
C19_RemoteFailureGivesDefault ==
    call.fn = "enrich" =>
       /\ call.result.ok
       /\ LET feats == call.result.event.feats
              m == call.models
              o == call.outcomes
              text == call.args.content.text.v
          IN /\ (m.ner # "simple" /\ RemoteFailed(o.ner, "entities"))
                   => feats.ner = DEFAULT_NER
             /\ (m.sentiment # "simple" /\ RemoteFailed(o.sentiment, "sentiment"))
                   => feats.sentiment = DEFAULT_SENTIMENT
             /\ (m.topics # "simple" /\ RemoteFailed(o.topics, "topics"))
                   => feats.topics = DEFAULT_TOPICS
             /\ (m.bot # "simple" /\ RemoteFailed(o.bot, "bot_likelihood"))
                   => feats.bot_likelihood = DEFAULT_BOT
             /\ m.ner = "simple" => feats.ner = simple_ner(text)
             /\ m.sentiment = "simple" => feats.sentiment = simple_sentiment(text)
             /\ m.topics = "simple" => feats.topics = simple_topics(text)
             /\ m.bot = "simple" => feats.bot_likelihood = simple_bot_likelihood(text)
             /\ (m.ner # "simple" /\ o.ner = GoodBody) => feats.ner = List(<<"Alice">>)
             /\ (m.topics # "simple" /\ o.topics = GoodBody) => feats.topics = List(<<"sports">>)

(***************************************************************************)
(* SpecUpsert: upsert_event called with mappings that do and do not make   *)
(* an EventIn, under every environment and behaviour of the graph store.   *)
(***************************************************************************)
\* The mapping restricted to the given keys.
Restrict(event, keys) == [k \in keys |-> event[k]]

\* The event in full, with its required fields only, and short of a
\* required field.
Mappings(evt) ==
    {evt, Restrict(evt, REQUIRED),
     Restrict(evt, DOMAIN evt \ {"src"}), Restrict(evt, {"event_id", "ts"})}

Envs == {NoEnv, TEST_ENV, [NEO4J_URI |-> "bolt://example.com", NEO4J_DATABASE |-> ""]}

\* The store's behaviours of GraphStates, and a failed write followed by a
\* failed close, each under every environment.
UpsertStates(evt) ==
    {[gs EXCEPT !.env = env] :
        gs \in GraphStates(evt) \cup {[GraphWriteFails(1) EXCEPT !.close = "raises"]},
        env \in Envs}

UpsertInit ==
    /\ call \in UNION {{[fn |-> "none", event |-> m, gs |-> gs] :
                           m \in Mappings(evt), gs \in UpsertStates(evt)} :
                       evt \in ApiEvents}
    /\ event_table = <<>>
    /\ graph = EmptyGraph
    /\ last = NoRequest
    /\ g_graph = EmptyGraph
    /\ g_last = [event_id |-> NULL, raised |-> FALSE, again |-> FALSE, failures |-> 0]
    /\ s_table = <<>>
    /\ s_last = [called |-> FALSE]
    /\ tactic_table = <<>>
    /\ sync_runs = <<>>
    /\ dash = NoPass

CallUpsertEvent ==
    /\ call.fn = "none"
    /\ LET up == upsert_event(graph, call.event, call.gs)
       IN /\ graph' = up.graph
          /\ call' = [call EXCEPT !.fn = "upsert_event"] @@
                     [raised |-> up.raised, calls |-> up.calls]
    /\ UNCHANGED <<sync_vars, dash, event_table, last, graph_vars, spice_vars>>

UpsertNext == CallUpsertEvent

SpecUpsert == UpsertInit /\ [][UpsertNext]_vars

\* The positions in the call trace at which fn was called.
CallsOf(fn) == {i \in 1..Len(call.calls) : call.calls[i].fn = fn}

\* The client was constructed, from the environment's parameters, once.
ClientConstructed ==
    /\ call.gs.client = "ok"
    /\ CallsOf("Neo4jClient") = {1}
    /\ call.calls[1] = ClientCall(call.gs.env)

\* write_event was called once with the mapping as an EventIn, and close
\* once after it.
WrittenThenClosed ==
    /\ Cardinality(CallsOf("write_event")) = 1
    /\ Cardinality(CallsOf("close")) = 1
    /\ \A i \in CallsOf("write_event") :
          /\ call.calls[i].args = <<call.event @@ DEFAULTS>>
          /\ \A j \in CallsOf("close") : i < j

StoreOf(event) ==
    [event |-> [event EXCEPT !.content = "content", !.feats = "feats"],
     content |-> event.content,
     feats |-> event.feats]

\* The event object id with its two dicts read through their references.
Deref(store, id) ==
    [store[id] EXCEPT !.content = store[store[id].content],
                      !.feats = store[store[id].feats]]

\* event.model_copy(deep=True): a new event with dicts of its own.
model_copy_deep(store) ==
    ("copy" :> [store.event EXCEPT !.content = "copy_content", !.feats = "copy_feats"])
       @@ ("copy_content" :> store[store.event.content])
       @@ ("copy_feats" :> store[store.event.feats])
       @@ store

\* normalize on the store: the copy is made first, the language check may
\* raise, and content["text"] and feats["lang"] are written through the
\* copy's references.
normalize_on(store, net) ==
    LET r == normalize(Deref(store, "event"), net)
        copied == model_copy_deep(store)
    IN IF ~r.ok
       THEN [ok |-> FALSE, error |-> r.error, store |-> copied, requests |-> <<>>]
       ELSE [ok |-> TRUE, ret |-> "copy",
             store |-> [copied EXCEPT
                 ![copied.copy.content] = ("text" :> r.event.content.text) @@ @,
                 ![copied.copy.feats] = ("lang" :> r.event.feats.lang) @@ @],
             requests |-> r.requests]

\* norm.normalize(event) after the import of the module.
norm_normalize_on(store, net) ==
    IF ~Compiles(NORMALIZE_MODULE)
    THEN [ok |-> FALSE, error |-> "SyntaxError", store |-> store, requests |-> <<>>]
    ELSE normalize_on(store, net)

\* enrich with feats = event.feats in place of dict(event.feats).
InPlaceEnrichOn(store, models, outcomes) ==
    LET r == enrich(Deref(store, "event"), models, outcomes)
    IN IF ~r.ok THEN [ok |-> FALSE, error |-> r.error, store |-> store]
       ELSE [ok |-> TRUE, ret |-> "copy",
             store |-> ("copy" :> store.event)
                          @@ [store EXCEPT ![store.event.feats] = r.event.feats]]

\* enrich on the store: feats is a new dict holding the input's items, the
\* features are written to it, and model_copy(update={"feats": feats})
\* returns a new event that shares the input's content dict.  When a
\* feature raises, the features written before it are lost with the new
\* dict.
enrich_on(store, models, outcomes) ==
    LET r == enrich(Deref(store, "event"), models, outcomes)
        fresh == ("feats2" :> store[store.event.feats]) @@ store
    IN IF ~r.ok THEN [ok |-> FALSE, error |-> r.error, store |-> fresh]
       ELSE [ok |-> TRUE, ret |-> "copy",
             store |-> ("copy" :> [store.event EXCEPT !.feats = "feats2"])
                          @@ [fresh EXCEPT !["feats2"] = r.event.feats]]

(***************************************************************************)
(* SpecFrame: normalize and enrich called on a caller's event.             *)
(***************************************************************************)
FrameEvents ==
    NormalizeEvents \cup EnrichEvents
       \cup {EventIn("2", 2, "feed", "a1", [text |-> Str(x)], f, <<"T1000">>, NULL, "x") :
                x \in {T_test, T_es},
                f \in {[lang |-> "en"], [lang |-> "en", ner |-> List(<<"Old">>)]}}

FrameInit ==
    /\ call \in {[fn |-> "none", event |-> evt, net |-> net,
                  models |-> c.models, outcomes |-> c.outcomes] :
                    evt \in FrameEvents, net \in Nets, c \in EnrichCases}
    /\ event_table = <<>>
    /\ graph = EmptyGraph
    /\ last = NoRequest
    /\ g_graph = EmptyGraph
    /\ g_last = [event_id |-> NULL, raised |-> FALSE, again |-> FALSE, failures |-> 0]
    /\ s_table = <<>>
    /\ s_last = [called |-> FALSE]
    /\ tactic_table = <<>>
    /\ sync_runs = <<>>
    /\ dash = NoPass

CallNormalizeOn ==
    /\ call.fn = "none"
    /\ call' = [call EXCEPT !.fn = "normalize"] @@
               [result |-> norm_normalize_on(StoreOf(call.event), call.net)]
    /\ UNCHANGED <<sync_vars, dash, api_vars, graph_vars, spice_vars>>

CallEnrichOn ==
    /\ call.fn = "none"
    /\ call' = [call EXCEPT !.fn = "enrich"] @@
               [result |-> enrich_on(StoreOf(call.event), call.models, call.outcomes)]
    /\ UNCHANGED <<sync_vars, dash, api_vars, graph_vars, spice_vars>>

FrameNext == CallNormalizeOn \/ CallEnrichOn

SpecFrame == FrameInit /\ [][FrameNext]_vars

FEATURE_KEYS == {"ner", "sentiment", "topics", "bot_likelihood"}

Machine(start, transitions) == [start |-> start, transitions |-> transitions]

\* machine.transitions.get(state, {}).items()
Items(machine, state) ==
    IF state \in DOMAIN machine.transitions THEN machine.transitions[state] ELSE <<>>

\* Machine.step: the next state, or KeyError.
step(machine, state, action) ==
    LET items == Items(machine, state)
    IN IF \E i \in 1..Len(items) : items[i][1] = action
       THEN [ok |-> TRUE,
             state |-> items[CHOOSE i \in 1..Len(items) : items[i][1] = action][2]]
       ELSE [ok |-> FALSE, error |-> "KeyError"]

RECURSIVE WalkFrom(_, _, _, _)
WalkFrom(machine, state, path, actions) ==
    IF actions = <<>> THEN [ok |-> TRUE, path |-> path]
    ELSE LET nxt == step(machine, state, Head(actions))
         IN IF ~nxt.ok THEN nxt
            ELSE WalkFrom(machine, nxt.state, Append(path, nxt.state), Tail(actions))

\* Machine.walk: the states visited, the start state included.
walk(machine, actions) == WalkFrom(machine, machine.start, <<machine.start>>, actions)

RECURSIVE EvaluateFrom(_, _, _, _, _)
EvaluateFrom(machine, state, value, actions, policy) ==
    IF actions = <<>> THEN [ok |-> TRUE, value |-> value]
    ELSE LET nxt == step(machine, state, Head(actions))
         IN IF ~nxt.ok THEN nxt
            ELSE EvaluateFrom(machine, nxt.state,
                              FMul(value, policy[<<state, Head(actions)>>]),
                              Tail(actions), policy)

\* evaluate_path: the product of the policy's weights along the actions.
evaluate_path(machine, actions, policy) ==
    EvaluateFrom(machine, machine.start, <<1, 1>>, actions, policy)

\* float("-inf"), and value > best[1].
NEG_INF == <<-1, 0>>
FGt(a, b) == IF b = NEG_INF THEN a # NEG_INF ELSE a[1] * b[2] > b[1] * a[2]

RECURSIVE EveryPrefixDfs(_, _, _, _, _, _, _)
RECURSIVE EveryPrefixItems(_, _, _, _, _, _, _, _)
\* dfs of best_path judging every path it passes, ended or not.
EveryPrefixDfs(machine, policy, state, path, value, remaining, best) ==
    LET judged == IF FGt(value, best.value) THEN [path |-> path, value |-> value] ELSE best
    IN IF remaining = 0 THEN judged
       ELSE EveryPrefixItems(machine, policy, state, path, value, remaining,
                             Items(machine, state), judged)

EveryPrefixItems(machine, policy, state, path, value, remaining, items, best) ==
    IF items = <<>> THEN best
    ELSE EveryPrefixItems(machine, policy, state, path, value, remaining, Tail(items),
            EveryPrefixDfs(machine, policy, Head(items)[2], Append(path, Head(items)[2]),
                           FMul(value, policy[<<state, Head(items)[1]>>]),
                           remaining - 1, best))

EveryPrefixBestPath(machine, depth, policy) ==
    EveryPrefixDfs(machine, policy, machine.start, <<machine.start>>, <<1, 1>>, depth,
                   [path |-> <<>>, value |-> NEG_INF])

RECURSIVE dfs(_, _, _, _, _, _, _)
RECURSIVE dfs_items(_, _, _, _, _, _, _, _)
\* dfs of best_path: a path is judged when it exhausted the depth or stands
\* at a state without transitions, and replaces best when strictly better;
\* then the items of the state are followed unless the depth is exhausted.
dfs(machine, policy, state, path, value, remaining, best) ==
    LET judged == IF (remaining = 0 \/ Items(machine, state) = <<>>)
                        /\ FGt(value, best.value)
                  THEN [path |-> path, value |-> value] ELSE best
    IN IF remaining = 0 THEN judged
       ELSE dfs_items(machine, policy, state, path, value, remaining,
                      Items(machine, state), judged)

\* for action, nxt in ...items(): dfs(nxt, path + [nxt], value * weight, remaining - 1)
dfs_items(machine, policy, state, path, value, remaining, items, best) ==
    IF items = <<>> THEN best
    ELSE dfs_items(machine, policy, state, path, value, remaining, Tail(items),
            dfs(machine, policy, Head(items)[2], Append(path, Head(items)[2]),
                FMul(value, policy[<<state, Head(items)[1]>>]),
                remaining - 1, best))

\* best_path: best after the search, or ([start], 1.0) when best is unset.
best_path(machine, depth, policy) ==
    LET best == dfs(machine, policy, machine.start, <<machine.start>>, <<1, 1>>, depth,
                    [path |-> <<>>, value |-> NEG_INF])
    IN IF best.path # <<>> THEN best
       ELSE [path |-> <<machine.start>>, value |-> <<1, 1>>]

(***************************************************************************)
(* SpecCatma: best_path on small machines, under every policy over a few   *)
(* weights, for every depth up to MaxDepth.                                *)
(***************************************************************************)
MaxDepth == 3

\* The machine of the tests, a machine with a cycle and a state that has no
\* entry in transitions, and a machine of one state.
TEST_MACHINE ==
    Machine("A", [A |-> <<<<"x", "B">>, <<"z", "C">>>>, B |-> <<<<"y", "C">>>>, C |-> <<>>])
LOOP_MACHINE ==
    Machine("A", [A |-> <<<<"x", "B">>>>, B |-> <<<<"x", "A">>, <<"y", "D">>>>])
LONE_MACHINE == Machine("A", [A |-> <<>>])
Machines == {TEST_MACHINE, LOOP_MACHINE, LONE_MACHINE}

\* The (state, action) pairs of a machine.
AllPairs(machine) ==
    UNION {{<<st, machine.transitions[st][i][1]>> : i \in 1..Len(machine.transitions[st])} :
              st \in DOMAIN machine.transitions}

Weights == {<<1, 2>>, <<2, 1>>, <<-1, 1>>, <<0, 1>>}
TEST_POLICY == (<<"A", "x">> :> <<6, 10>>) @@ (<<"A", "z">> :> <<4, 10>>)
                  @@ (<<"B", "y">> :> <<5, 10>>)

CatmaInit ==
    /\ call \in UNION {{[fn |-> "none", machine |-> m, depth |-> depth, policy |-> policy] :
                           depth \in 0..MaxDepth,
                           policy \in [AllPairs(m) -> Weights]
                                      \cup (IF m = TEST_MACHINE THEN {TEST_POLICY} ELSE {})} :
                       m \in Machines}
    /\ event_table = <<>>
    /\ graph = EmptyGraph
    /\ last = NoRequest
    /\ g_graph = EmptyGraph
    /\ g_last = [event_id |-> NULL, raised |-> FALSE, again |-> FALSE, failures |-> 0]
    /\ s_table = <<>>
    /\ s_last = [called |-> FALSE]
    /\ tactic_table = <<>>
    /\ sync_runs = <<>>
    /\ dash = NoPass

CallBestPath ==
    /\ call.fn = "none"
    /\ call' = [call EXCEPT !.fn = "best_path"] @@
               [result |-> best_path(call.machine, call.depth, call.policy)]
    /\ UNCHANGED <<sync_vars, dash, api_vars, graph_vars, spice_vars>>

CatmaNext == CallBestPath

SpecCatma == CatmaInit /\ [][CatmaNext]_vars

\* The action sequences of at most depth actions.
ActionSeqs(depth) == UNION {[1..n -> {"x", "y", "z"}] : n \in 0..depth}

\* The sequence can be walked from the start state.
Executable(machine, seq) == walk(machine, seq).ok

\* The sequence can be walked and ends the search: it has depth actions or
\* stops at a state without transitions.
Complete(machine, seq, depth) ==
    /\ walk(machine, seq).ok
    /\ \/ Len(seq) = depth
       \/ LET path == walk(machine, seq).path IN Items(machine, path[Len(path)]) = <<>>

\* The sequence's walk and value are the ones returned.
Returned22(seq) ==
    /\ walk(call.machine, seq).path = call.result.path
    /\ FEq(evaluate_path(call.machine, seq, call.policy).value, call.result.value)

Game(players, strategies, payoffs) ==
    [players |-> players, strategies |-> strategies, payoffs |-> payoffs]

\* float(v) of a small integer.
Float(v) == <<v, 1>>

\* Game.payoff: the payoff tuple of a profile, KeyError for an unknown one.
payoff(game, profile) ==
    IF profile \notin DOMAIN game.payoffs THEN [ok |-> FALSE, error |-> "KeyError"]
    ELSE [ok |-> TRUE, value |-> game.payoffs[profile]]

\* self.players.index(player)
IndexOf(players, player) == CHOOSE i \in 1..Len(players) :
    players[i] = player /\ \A j \in 1..(i - 1) : players[j] # player

\* The profile with strategy for player and the opponents' strategies.
ProfileOf(game, player, strategy, opponents) ==
    [i \in 1..Len(game.players) |->
        IF game.players[i] = player THEN strategy ELSE opponents[game.players[i]]]

RECURSIVE TieDroppingBestFrom(_, _, _, _, _, _)
\* The loop of best_response without its elif branch.
TieDroppingBestFrom(game, player, opponents, strategies, best, best_value) ==
    IF strategies = <<>> THEN [ok |-> TRUE, value |-> best]
    ELSE LET pay == payoff(game, ProfileOf(game, player, Head(strategies), opponents))
         IN IF ~pay.ok THEN pay
            ELSE LET value == pay.value[IndexOf(game.players, player)]
                 IN IF FGt(value, best_value)
                    THEN TieDroppingBestFrom(game, player, opponents, Tail(strategies),
                                             <<Head(strategies)>>, value)
                    ELSE TieDroppingBestFrom(game, player, opponents, Tail(strategies),
                                             best, best_value)

RECURSIVE BestFrom(_, _, _, _, _, _)
\* The loop of best_response over the player's strategies: a strictly
\* greater value starts best anew, an equal one is appended.
BestFrom(game, player, opponents, strategies, best, best_value) ==
    IF strategies = <<>> THEN [ok |-> TRUE, value |-> best]
    ELSE LET pay == payoff(game, ProfileOf(game, player, Head(strategies), opponents))
         IN IF ~pay.ok THEN pay
            ELSE LET value == pay.value[IndexOf(game.players, player)]
                 IN IF FGt(value, best_value)
                    THEN BestFrom(game, player, opponents, Tail(strategies),
                                  <<Head(strategies)>>, value)
                    ELSE IF FEq(value, best_value) /\ best_value # NEG_INF
                    THEN BestFrom(game, player, opponents, Tail(strategies),
                                  Append(best, Head(strategies)), best_value)
                    ELSE BestFrom(game, player, opponents, Tail(strategies),
                                  best, best_value)

Range(seq) == {seq[i] : i \in 1..Len(seq)}

\* Game.best_response
best_response(game, player, opponents) ==
    IF player \notin Range(game.players) THEN [ok |-> FALSE, error |-> "KeyError"]
    ELSE IF DOMAIN opponents # Range(game.players) \ {player}
    THEN [ok |-> FALSE, error |-> "ValueError"]
    ELSE BestFrom(game, player, opponents, game.strategies[player], <<>>, NEG_INF)

(***************************************************************************)
(* SpecGame: best_response in games of two and of three players.           *)
(***************************************************************************)
PRISONERS_DILEMMA ==
    Game(<<"Alice", "Bob">>, [Alice |-> <<"C", "D">>, Bob |-> <<"C", "D">>],
         (<<"C", "C">> :> <<Float(-1), Float(-1)>>) @@ (<<"C", "D">> :> <<Float(-3), Float(0)>>)
            @@ (<<"D", "C">> :> <<Float(0), Float(-3)>>)
            @@ (<<"D", "D">> :> <<Float(-2), Float(-2)>>))

TIES_GAME ==
    Game(<<"P1", "P2">>, [P1 |-> <<"A", "B">>, P2 |-> <<"X">>],
         (<<"A", "X">> :> <<Float(1), Float(0)>>) @@ (<<"B", "X">> :> <<Float(1), Float(0)>>))

\* TIES_GAME knowing one of its two profiles only.
PARTIAL_GAME ==
    Game(<<"P1", "P2">>, [P1 |-> <<"A", "B">>, P2 |-> <<"X">>],
         (<<"A", "X">> :> <<Float(1), Float(0)>>))

\* The games of P1 (A, B), P2 (X, Y, Z) and P3 (U) in which P2's payoffs
\* are drawn freely, P1's payoff is 1 for A and 0 for B, and P3's is 0.
ThreePlayerGames ==
    {Game(<<"P1", "P2", "P3">>,
          [P1 |-> <<"A", "B">>, P2 |-> <<"X", "Y", "Z">>, P3 |-> <<"U">>],
          [profile \in {"A", "B"} \X {"X", "Y", "Z"} \X {"U"} |->
              <<Float(IF profile[1] = "A" THEN 1 ELSE 0),
                Float(pay[<<profile[1], profile[2]>>]), Float(0)>>]) :
        pay \in [{"A", "B"} \X {"X", "Y", "Z"} -> {0, 1}]}

Games == {PRISONERS_DILEMMA, TIES_GAME, PARTIAL_GAME} \cup ThreePlayerGames

\* A player of no game.
EVE == "Eve"

\* The opponents mappings: any set of the game's players and Eve, each
\* mapped to one of its strategies (Eve to X).
StrategiesOf(game, p) == IF p = EVE THEN {"X"} ELSE Range(game.strategies[p])
OpponentMappings(game) ==
    UNION {{f \in [S -> {"A", "B", "C", "D", "X", "Y", "Z", "U"}] :
               \A p \in S : f[p] \in StrategiesOf(game, p)} :
           S \in SUBSET (Range(game.players) \cup {EVE})}

GameInit ==
    /\ call \in UNION {{[fn |-> "none", game |-> g, player |-> p, opponents |-> o] :
                           p \in Range(g.players) \cup {EVE}, o \in OpponentMappings(g)} :
                       g \in Games}
    /\ event_table = <<>>
    /\ graph = EmptyGraph
    /\ last = NoRequest
    /\ g_graph = EmptyGraph
    /\ g_last = [event_id |-> NULL, raised |-> FALSE, again |-> FALSE, failures |-> 0]
    /\ s_table = <<>>
    /\ s_last = [called |-> FALSE]
    /\ tactic_table = <<>>
    /\ sync_runs = <<>>
    /\ dash = NoPass

CallBestResponse ==
    /\ call.fn = "none"
    /\ call' = [call EXCEPT !.fn = "best_response"] @@
               [result |-> best_response(call.game, call.player, call.opponents)]
    /\ UNCHANGED <<sync_vars, dash, api_vars, graph_vars, spice_vars>>

GameNext == CallBestResponse

SpecGame == GameInit /\ [][GameNext]_vars

\* The call names a player of the game and exactly the other players.
KnownPlayer == call.player \in Range(call.game.players)
ExactOpponents == DOMAIN call.opponents = Range(call.game.players) \ {call.player}

\* The player's payoff for a strategy against the call's opponents.
PayoffFor(strategy) ==
    call.game.payoffs[ProfileOf(call.game, call.player, strategy, call.opponents)]
        [IndexOf(call.game.players, call.player)]

\* The game knows the payoff of every profile the call can form.
PayoffsKnown ==
    \A st \in Range(call.game.strategies[call.player]) :
        ProfileOf(call.game, call.player, st, call.opponents) \in DOMAIN call.game.payoffs

\* No strategy of the player pays strictly more.
Maximal(strategy) ==
    \A other \in Range(call.game.strategies[call.player]) :
        ~FGt(PayoffFor(other), PayoffFor(strategy))

\* C23: best_response returns exactly the strategies of player whose payoff
\* against the fixed opponent strategies is maximal over player's
\* strategies, tied maximisers included, in the player's strategy order; an
\* unknown player raises a key error, and an opponents mapping whose keys
\* are not exactly the other players raises a value error.
C23_BestResponse ==
    call.fn = "best_response" =>
       /\ ~KnownPlayer => (~call.result.ok /\ call.result.error = "KeyError")
       /\ (KnownPlayer /\ ~ExactOpponents)
             => (~call.result.ok /\ call.result.error = "ValueError")
       /\ (KnownPlayer /\ ExactOpponents /\ PayoffsKnown)
             => /\ call.result.ok
                /\ call.result.value = SelectSeq(call.game.strategies[call.player], Maximal)

\* P2 answers P1 and P3 in a game of three where X and Z tie above Y: both
\* are returned, in list order.
C23_Witness ==
    /\ call.fn = "best_response"
    /\ Len(call.game.players) = 3 /\ call.player = "P2"
    /\ call.opponents = [P1 |-> "B", P3 |-> "U"]
    /\ call.result.ok /\ call.result.value = <<"X", "Z">>
    /\ FGt(PayoffFor("X"), PayoffFor("Y"))

(***************************************************************************)
(* DISARM sync (core/disarm/sync.py).  The tactics file is a JSON list of  *)
(* objects; the table disarm_tactic has the primary key tactic_id, name    *)
(* and description NOT NULL, phase nullable.                               *)
(***************************************************************************)
\* t.get(key, default)
Get(t, key, default) == IF key \in DOMAIN t THEN t[key] ELSE default

\* The values of the insert statement for a record; KeyError when
\* t["tactic_id"] or t["name"] is missing.
TacticValues(t) ==
    IF "tactic_id" \notin DOMAIN t \/ "name" \notin DOMAIN t
    THEN [ok |-> FALSE, error |-> "KeyError"]
    ELSE [ok |-> TRUE,
          row |-> [tactic_id |-> t.tactic_id, name |-> t.name,
                   description |-> Get(t, "description", ""),
                   phase |-> Get(t, "phase", NULL)]]

\* INSERT ... ON CONFLICT (tactic_id) DO UPDATE SET name, description, phase:
\* IntegrityError when a NOT NULL column would hold NULL.
on_conflict_do_update(table, row) ==
    IF row.tactic_id = NULL \/ row.name = NULL \/ row.description = NULL
    THEN [ok |-> FALSE, error |-> "IntegrityError"]
    ELSE IF \E i \in 1..Len(table) : table[i].tactic_id = row.tactic_id
    THEN [ok |-> TRUE,
          table |-> [i \in 1..Len(table) |->
                        IF table[i].tactic_id = row.tactic_id THEN row ELSE table[i]]]
    ELSE [ok |-> TRUE, table |-> Append(table, row)]

RECURSIVE ExecuteAll(_, _)
\* for t in tactics: conn.execute(stmt), up to the first statement that
\* raises; table is what the connection sees.
ExecuteAll(table, tactics) ==
    IF tactics = <<>> THEN [ok |-> TRUE, table |-> table]
    ELSE LET values == TacticValues(Head(tactics))
         IN IF ~values.ok THEN [ok |-> FALSE, error |-> values.error, table |-> table]
            ELSE LET done == on_conflict_do_update(table, values.row)
                 IN IF ~done.ok THEN [ok |-> FALSE, error |-> done.error, table |-> table]
                    ELSE ExecuteAll(done.table, Tail(tactics))

\* sync with every statement committed as it is executed.
AutocommitSync(table, tactics) ==
    LET run == ExecuteAll(table, tactics)
    IN IF run.ok THEN [raised |-> FALSE, table |-> run.table]
       ELSE [raised |-> TRUE, error |-> run.error, table |-> run.table]

\* sync: the statements run inside "with engine.begin() as conn", which
\* commits when the block ends and rolls back when it raises.
sync(table, tactics) ==
    LET run == ExecuteAll(table, tactics)
    IN IF run.ok THEN [raised |-> FALSE, table |-> run.table]
       ELSE [raised |-> TRUE, error |-> run.error, table |-> table]

(***************************************************************************)
(* SpecSync: sync run again and again on one database, each run reading a  *)
(* tactics file of up to two records.                                      *)
(***************************************************************************)
MaxRuns == 2

\* The records of the test's file, a later edition of TA01 without
\* description and phase, records short of tactic_id or of name, and
\* records whose name or description is null.
TacticRecords ==
    {[tactic_id |-> "TA01", name |-> "Tactic One", description |-> "Alpha tactic",
      phase |-> "Plan"],
     [tactic_id |-> "TA02", name |-> "Tactic Two", description |-> "Bravo tactic",
      phase |-> "Act"],
     [tactic_id |-> "TA01", name |-> "Tactic Uno"],
     [tactic_id |-> "TA02", description |-> "Bravo tactic", phase |-> "Act"],
     [name |-> "Tactic Three", description |-> "Charlie tactic", phase |-> "Plan"],
     [tactic_id |-> "TA02", name |-> NULL, description |-> "Bravo tactic", phase |-> "Act"],
     [tactic_id |-> "TA01", name |-> "Tactic One", description |-> NULL, phase |-> NULL]}

TacticFiles == {<<>>} \cup {<<a>> : a \in TacticRecords}
                  \cup {<<a, b>> : a \in TacticRecords, b \in TacticRecords}

SyncInit ==
    /\ tactic_table = <<>>
    /\ sync_runs = <<>>
    /\ event_table = <<>>
    /\ graph = EmptyGraph
    /\ last = NoRequest
    /\ g_graph = EmptyGraph
    /\ g_last = [event_id |-> NULL, raised |-> FALSE, again |-> FALSE, failures |-> 0]
    /\ s_table = <<>>
    /\ s_last = [called |-> FALSE]
    /\ call = NoCall
    /\ dash = NoPass

\* One run of sync on the file.
Sync(file) ==
    /\ Len(sync_runs) < MaxRuns
    /\ LET run == sync(tactic_table, file)
       IN /\ tactic_table' = run.table
          /\ sync_runs' = Append(sync_runs,
                [file |-> file, raised |-> run.raised, before |-> tactic_table])
    /\ UNCHANGED <<api_vars, graph_vars, spice_vars, call, dash>>

SyncNext == \E file \in TacticFiles : Sync(file)

SpecSync == SyncInit /\ [][SyncNext]_vars

\* The records of the runs that did not raise, in the order synced.
RECURSIVE Synced(_)
Synced(runs) ==
    IF runs = <<>> THEN <<>>
    ELSE Synced(SubSeq(runs, 1, Len(runs) - 1))
            \o (IF runs[Len(runs)].raised THEN <<>> ELSE runs[Len(runs)].file)

\* The last record of the sequence with the given tactic_id.
LastFor(records, id) ==
    records[CHOOSE i \in 1..Len(records) :
               /\ records[i].tactic_id = id
               /\ \A j \in (i + 1)..Len(records) : records[j].tactic_id # id]

\* A record short of tactic_id or of name.
Incomplete(t) == "tactic_id" \notin DOMAIN t \/ "name" \notin DOMAIN t

\* C24: after any sequence of sync runs the table holds at most one row per
\* tactic_id, one for every id synced, carrying the name, description and
\* phase of the last record synced for that id ("" and null standing for a
\* description and a phase left out); a second run on the same file leaves
\* the table as after the first; and a run whose file holds a record
\* missing tactic_id or name raises and leaves the table as it was.
C24_SyncUpserts ==
    LET synced == Synced(sync_runs)
        n == Len(sync_runs)
    IN /\ \A i, j \in 1..Len(tactic_table) :
             tactic_table[i].tactic_id = tactic_table[j].tactic_id => i = j
       /\ {tactic_table[i].tactic_id : i \in 1..Len(tactic_table)}
             = {synced[i].tactic_id : i \in 1..Len(synced)}
       /\ \A i \in 1..Len(tactic_table) :
             LET t == LastFor(synced, tactic_table[i].tactic_id)
             IN /\ tactic_table[i].name = t.name
                /\ tactic_table[i].description
                      = (IF "description" \in DOMAIN t THEN t.description ELSE "")
                /\ tactic_table[i].phase = (IF "phase" \in DOMAIN t THEN t.phase ELSE NULL)
       /\ (n >= 2 /\ sync_runs[n].file = sync_runs[n - 1].file)
             => tactic_table = sync_runs[n].before
       /\ (n >= 1 /\ \E i \in 1..Len(sync_runs[n].file) : Incomplete(sync_runs[n].file[i]))
             => (sync_runs[n].raised /\ tactic_table = sync_runs[n].before)

\* The test's file was synced, then a file whose first record renames TA01
\* and whose second lacks a name: the run raised and TA01 keeps its name.
C24_Witness ==
    /\ Len(sync_runs) = 2
    /\ ~sync_runs[1].raised /\ Len(sync_runs[1].file) = 2
    /\ sync_runs[2].raised
    /\ sync_runs[2].file[1] = [tactic_id |-> "TA01", name |-> "Tactic Uno"]
    /\ Incomplete(sync_runs[2].file[2])
    /\ Len(tactic_table) = 2
    /\ tactic_table[1].name = "Tactic One"

\* ---------------------------------------------------------------------------
\* predict_policy_impact (sim/tickloop.py) in the arithmetic it runs in
\* ---------------------------------------------------------------------------
\* The function computes in Python floats, i.e. IEEE 754 binary64: the result
\* of every multiplication, addition and subtraction is the exact result
\* rounded to 53 significant bits, ties to even.  A natural number of any size
\* is a sequence of limbs in base 2^13, least significant first, without
\* leading zero limbs; a number is sign * m * 2^e with m such a natural.
\* Exponents stay far from the range limits of binary64 for the parameters
\* used here, so overflow and subnormals are not modelled.
LimbBits == 13
LIMB == 2 ^ LimbBits
PRECISION == 53

RECURSIVE BigTrim(_)
BigTrim(a) ==
    IF a = <<>> \/ a[Len(a)] # 0 THEN a ELSE BigTrim(SubSeq(a, 1, Len(a) - 1))

RECURSIVE BigOf(_)
BigOf(n) == IF n = 0 THEN <<>> ELSE <<n % LIMB>> \o BigOf(n \div LIMB)

RECURSIVE BigToInt(_)
BigToInt(a) == IF a = <<>> THEN 0 ELSE a[1] + LIMB * BigToInt(Tail(a))

BigRest(a) == IF a = <<>> THEN <<>> ELSE Tail(a)
BigLow(a) == IF a = <<>> THEN 0 ELSE a[1]

RECURSIVE BigAddC(_, _, _)
BigAddC(a, b, c) ==
    IF a = <<>> /\ b = <<>>
    THEN (IF c = 0 THEN <<>> ELSE <<c>>)
    ELSE LET x == BigLow(a) + BigLow(b) + c
         IN <<x % LIMB>> \o BigAddC(BigRest(a), BigRest(b), x \div LIMB)

BigAdd(a, b) == BigAddC(a, b, 0)

\* a - b for a >= b.
RECURSIVE BigSubB(_, _, _)
BigSubB(a, b, borrow) ==
    IF a = <<>>
    THEN <<>>
    ELSE LET x == a[1] - BigLow(b) - borrow
         IN <<x % LIMB>> \o BigSubB(Tail(a), BigRest(b), IF x < 0 THEN 1 ELSE 0)

BigSub(a, b) == BigTrim(BigSubB(a, b, 0))

\* -1, 0 or 1 as a is below, equal to or above b.
RECURSIVE BigCmp(_, _)
BigCmp(a, b) ==
    IF Len(a) # Len(b) THEN (IF Len(a) < Len(b) THEN -1 ELSE 1)
    ELSE IF a = <<>> THEN 0
    ELSE IF a[Len(a)] # b[Len(b)] THEN (IF a[Len(a)] < b[Len(b)] THEN -1 ELSE 1)
    ELSE BigCmp(BigTrim(SubSeq(a, 1, Len(a) - 1)), BigTrim(SubSeq(b, 1, Len(b) - 1)))

RECURSIVE BigMulLimb(_, _, _)
BigMulLimb(a, x, c) ==
    IF a = <<>>
    THEN (IF c = 0 THEN <<>> ELSE <<c>>)
    ELSE LET y == a[1] * x + c
         IN <<y % LIMB>> \o BigMulLimb(Tail(a), x, y \div LIMB)

RECURSIVE BigMulRaw(_, _)
BigMulRaw(a, b) ==
    IF b = <<>> THEN <<>>
    ELSE BigAdd(BigMulLimb(a, b[1], 0), <<0>> \o BigMulRaw(a, Tail(b)))

BigMul(a, b) == BigTrim(BigMulRaw(a, b))

\* a * 2^k and the integer part of a / 2^k.
BigShl(a, k) ==
    IF a = <<>> THEN <<>>
    ELSE [i \in 1..(k \div LimbBits) |-> 0] \o BigMulLimb(a, 2 ^ (k % LimbBits), 0)

BigShr(a, k) ==
    LET q == k \div LimbBits
        r == k % LimbBits
        d == IF q >= Len(a) THEN <<>> ELSE SubSeq(a, q + 1, Len(a))
    IN BigTrim([i \in 1..Len(d) |->
                   (d[i] \div 2 ^ r)
                   + ((IF i < Len(d) THEN d[i + 1] ELSE 0) % 2 ^ r) * 2 ^ (LimbBits - r)])

\* The number of bits of a, and its bit i (bit 0 the lowest).
BigLen(a) ==
    IF a = <<>> THEN 0
    ELSE LimbBits * (Len(a) - 1)
         + (CHOOSE n \in 1..LimbBits : 2 ^ (n - 1) <= a[Len(a)] /\ a[Len(a)] < 2 ^ n)

BigBit(a, i) ==
    IF i \div LimbBits >= Len(a) THEN 0
    ELSE (a[i \div LimbBits + 1] \div 2 ^ (i % LimbBits)) % 2

\* sign * m * 2^e, exactly.
Dyadic(sign, m, e) == [sign |-> sign, m |-> m, e |-> e]
OfInt(n) == Dyadic(IF n < 0 THEN -1 ELSE 1, BigOf(IF n < 0 THEN -n ELSE n), 0)
Negated(x) == [x EXCEPT !.sign = -x.sign]

\* The exact product and the exact sum of two such numbers.
ExactMul(x, y) == Dyadic(x.sign * y.sign, BigMul(x.m, y.m), x.e + y.e)

ExactAdd(x, y) ==
    LET e == IF x.e < y.e THEN x.e ELSE y.e
        a == BigShl(x.m, x.e - e)
        b == BigShl(y.m, y.e - e)
    IN IF x.sign = y.sign THEN Dyadic(x.sign, BigAdd(a, b), e)
       ELSE IF BigCmp(a, b) >= 0 THEN Dyadic(x.sign, BigSub(a, b), e)
       ELSE Dyadic(y.sign, BigSub(b, a), e)

\* The binary64 nearest to x, ties to the even significand.
RoundNearestEven(x) ==
    LET excess == BigLen(x.m) - PRECISION
    IN IF excess <= 0 THEN x
       ELSE LET q == BigShr(x.m, excess)
                half == BigBit(x.m, excess - 1) = 1
                below == BigShl(BigShr(x.m, excess - 1), excess - 1) # x.m
                up == half /\ (below \/ BigBit(q, 0) = 1)
            IN Dyadic(x.sign, IF up THEN BigAdd(q, <<1>>) ELSE q, x.e + excess)

\* Python's float *, + and -.
float_mul(x, y) == RoundNearestEven(ExactMul(x, y))
float_add(x, y) == RoundNearestEven(ExactAdd(x, y))
float_sub(x, y) == RoundNearestEven(ExactAdd(x, Negated(y)))

\* int(x): the integer part, towards zero.
int(x) ==
    x.sign * BigToInt(IF x.e >= 0 THEN BigShl(x.m, x.e) ELSE BigShr(x.m, -x.e))

\* The values the loop of predict_policy_impact appends from a running reach.
RECURSIVE TickLoop(_, _, _, _, _)
TickLoop(reach, network, shr, decay, ticks) ==
    IF ticks <= 0 THEN <<>>
    ELSE LET grown == float_mul(reach, float_add(OfInt(1), float_mul(network, shr)))
             kept == float_mul(grown, float_sub(OfInt(1), decay))
         IN <<int(kept)>> \o TickLoop(kept, network, shr, decay, ticks - 1)

\* predict_policy_impact(campaign_id, s_amp, s_share, network, decay, ticks)
\* with dsn None.
PredictPolicyImpact(s_amp, s_share, network, decay, ticks) ==
    LET reach == float_mul(OfInt(BASE_REACH), s_amp)
        trajectory == <<int(reach)>> \o TickLoop(reach, network, s_share, decay, ticks)
    IN [baseline_reach |-> BASE_REACH,
        projected_reach |-> trajectory[Len(trajectory)],
        trajectory |-> trajectory]

\* The binary64 values of the literals 0.1, 0.2, 0.3, 0.5 and 1.5.
POINT_ONE == Dyadic(1, <<3277, 1638, 4915, 6553>>, -55)
POINT_TWO == Dyadic(1, <<3277, 1638, 4915, 6553>>, -54)
POINT_THREE == Dyadic(1, <<4915, 6553, 3276, 1638, 1>>, -54)
POINT_FIVE == Dyadic(1, <<1>>, -1)
ONE_AND_A_HALF == Dyadic(1, <<3>>, -1)

MaxTicks == 3

Amplifies == {OfInt(1), OfInt(2), ONE_AND_A_HALF}
Shares == {OfInt(1), POINT_FIVE}
Networks == {OfInt(0), POINT_TWO, POINT_THREE, POINT_FIVE}
Decays == {OfInt(0), POINT_ONE, POINT_THREE, POINT_FIVE}

TickInit ==
    /\ call \in [fn : {"none"}, s_amp : Amplifies, s_share : Shares,
                 network : Networks, decay : Decays, ticks : 0..MaxTicks]
    /\ event_table = <<>>
    /\ graph = EmptyGraph
    /\ last = NoRequest
    /\ g_graph = EmptyGraph
    /\ g_last = [event_id |-> NULL, raised |-> FALSE, again |-> FALSE, failures |-> 0]
    /\ s_table = <<>>
    /\ s_last = [called |-> FALSE]
    /\ tactic_table = <<>>
    /\ sync_runs = <<>>
    /\ dash = NoPass

CallPredictPolicyImpact ==
    /\ call.fn = "none"
    /\ call' = [call EXCEPT !.fn = "predict_policy_impact"] @@
               [result |-> PredictPolicyImpact(call.s_amp, call.s_share, call.network,
                                               call.decay, call.ticks)]
    /\ UNCHANGED <<sync_vars, dash, api_vars, graph_vars, spice_vars>>

TickNext == CallPredictPolicyImpact

SpecTick == TickInit /\ [][TickNext]_vars

\* 1000 * amplify * ((1 + network * share) * (1 - decay))^k, exactly.
RECURSIVE ExactReach(_, _, _, _, _)
ExactReach(s_amp, s_share, network, decay, k) ==
    IF k = 0 THEN ExactMul(OfInt(BASE_REACH), s_amp)
    ELSE ExactMul(ExactReach(s_amp, s_share, network, decay, k - 1),
                  ExactMul(ExactAdd(OfInt(1), ExactMul(network, s_share)),
                           ExactAdd(OfInt(1), Negated(decay))))

Predicted == call.fn = "predict_policy_impact"

\* What the returned trajectory has whatever the rounding: ticks + 1 values,
\* the first int(1000 * amplify), each within one of the truncated formula,
\* projected_reach the last, all equal when network and decay are 0, and the
\* values of test_predict_policy_impact_growth_decay.
TrajectoryShape ==
    Predicted =>
        LET t == call.result.trajectory
        IN /\ Len(t) = call.ticks + 1
           /\ t[1] = int(float_mul(OfInt(BASE_REACH), call.s_amp))
           /\ call.result.projected_reach = t[Len(t)]
           /\ \A k \in 0..call.ticks :
                 LET exact == int(ExactReach(call.s_amp, call.s_share, call.network,
                                             call.decay, k))
                 IN t[k + 1] \in {exact - 1, exact, exact + 1}
           /\ (call.network = OfInt(0) /\ call.decay = OfInt(0))
                 => \A k \in 1..Len(t) : t[k] = t[1]
           /\ (/\ call.s_amp = OfInt(1) /\ call.s_share = OfInt(1)
               /\ call.network = POINT_TWO /\ call.decay = POINT_ONE /\ call.ticks = 3)
                 => t = <<1000, 1080, 1166, 1259>>

\* C25: predict_policy_impact returns ticks + 1 values, the first
\* int(1000 * amplify) and the k-th the truncation of
\* 1000 * amplify * ((1 + network * share) * (1 - decay))^k; projected_reach
\* is the last of them, and with network = 0 and decay = 0 they are all equal.
C25_TrajectoryIsTruncatedFormula ==
    /\ TrajectoryShape
    /\ Predicted =>
          \A k \in 0..call.ticks :
             call.result.trajectory[k + 1]
                = int(ExactReach(call.s_amp, call.s_share, call.network, call.decay, k))


\* ---------------------------------------------------------------------------
\* The dashboard's render pass (osint-dashboard/app.py)
\* ---------------------------------------------------------------------------
\* Modules of osint-dashboard/modules: rss.py, whose fetch has no await and
\* so runs to its end in one step of the event loop, and two whose fetch
\* awaits an HTTP response.
DASH_MODULES == {"rss", "otx_pulses", "nvd_high_critical"}
Awaits(m) == m # "rss"

\* What a fetch ends with: the data it returns or the exception it raises,
\* each marked with the module whose fetch it was.
FetchReturned(m) == [by |-> m, exception |-> FALSE]
FetchRaised(m) == [by |-> m, exception |-> TRUE]
FetchOutcomes(m) == {FetchReturned(m), FetchRaised(m)}
NoOutcome == [by |-> "", exception |-> FALSE]

\* The sidebar's multiselect: module names, none twice.
Selections ==
    {s \in UNION {[1..n -> DASH_MODULES] : n \in 0..Cardinality(DASH_MODULES)} :
        \A i, j \in 1..Len(s) : s[i] = s[j] => i = j}

\* fetch_all up to its await: one coroutine per chosen module, in the order
\* chosen, all handed to gather, which schedules each as a task.
Tasks(chosen) ==
    [i \in 1..Len(chosen) |-> [m |-> chosen[i], st |-> "scheduled", res |-> NoOutcome]]

\* Results in the order tasks finished, not the order they were given.
CompletionOrderGather(tasks, order) ==
    [ready |-> \A i \in 1..Len(tasks) : tasks[i].st = "done",
     raised |-> FALSE,
     results |-> [k \in 1..Len(order) |-> tasks[order[k]].res]]

\* asyncio.gather(*tasks, return_exceptions=True): ready when every task is
\* done; the results, exceptions among them, in the order of the tasks.
gather(tasks, order) ==
    [ready |-> \A i \in 1..Len(tasks) : tasks[i].st = "done",
     raised |-> FALSE,
     results |-> [i \in 1..Len(tasks) |-> tasks[i].res]]

\* list(zip([m for m, _ in cfg_models], results))
Zip(ms, rs) ==
    [i \in 1..(IF Len(ms) < Len(rs) THEN Len(ms) ELSE Len(rs)) |-> <<ms[i], rs[i]>>]

\* The layout: up to three columns, one bordered box per pair, an error box
\* for a result that is an exception and the module's own render otherwise.
Boxes(results) ==
    LET n == Len(results)
        cols == IF n < 3 THEN (IF n < 1 THEN 1 ELSE n) ELSE 3
    IN [i \in 1..n |->
           [column |-> (i - 1) % cols,
            kind |-> IF results[i][2].exception THEN "error" ELSE "render",
            module |-> results[i][1],
            data |-> results[i][2]]]

DashInit ==
    /\ dash = NoPass
    /\ event_table = <<>>
    /\ graph = EmptyGraph
    /\ last = NoRequest
    /\ g_graph = EmptyGraph
    /\ g_last = [event_id |-> NULL, raised |-> FALSE, again |-> FALSE, failures |-> 0]
    /\ s_table = <<>>
    /\ s_last = [called |-> FALSE]
    /\ call = NoCall
    /\ tactic_table = <<>>
    /\ sync_runs = <<>>

dash_others == <<sync_vars, call, api_vars, graph_vars, spice_vars>>

\* A run of the script with nothing chosen: no fetch_all, the hint is shown.
RenderNothing ==
    /\ dash.pc = "idle"
    /\ dash' = [pc |-> "rendered", chosen |-> <<>>, tasks |-> <<>>, order |-> <<>>,
                results |-> <<>>, boxes |-> <<>>, info |-> TRUE]
    /\ UNCHANGED dash_others

\* A run of the script with modules chosen, up to the await in fetch_all.
FetchAll(chosen) ==
    /\ dash.pc = "idle"
    /\ chosen # <<>>
    /\ dash' = [pc |-> "gather", chosen |-> chosen, tasks |-> Tasks(chosen), order |-> <<>>,
                results |-> <<>>, boxes |-> <<>>, info |-> FALSE]
    /\ UNCHANGED dash_others

\* The event loop runs the first step of the earliest task not yet started:
\* up to the first await, or to the end of a fetch that has none.
StartFetch(i, outcome) ==
    /\ dash.pc = "gather"
    /\ i \in 1..Len(dash.tasks)
    /\ dash.tasks[i].st = "scheduled"
    /\ \A j \in 1..(i - 1) : dash.tasks[j].st # "scheduled"
    /\ outcome \in FetchOutcomes(dash.tasks[i].m)
    /\ dash' = IF Awaits(dash.tasks[i].m)
               THEN [dash EXCEPT !.tasks[i].st = "awaiting"]
               ELSE [dash EXCEPT !.tasks[i].st = "done", !.tasks[i].res = outcome,
                                 !.order = Append(@, i)]
    /\ UNCHANGED dash_others

\* The response a task awaits arrives and its fetch runs to its end.
CompleteFetch(i, outcome) ==
    /\ dash.pc = "gather"
    /\ i \in 1..Len(dash.tasks)
    /\ dash.tasks[i].st = "awaiting"
    /\ outcome \in FetchOutcomes(dash.tasks[i].m)
    /\ dash' = [dash EXCEPT !.tasks[i].st = "done", !.tasks[i].res = outcome,
                            !.order = Append(@, i)]
    /\ UNCHANGED dash_others

\* gather resolves, fetch_all returns its pairs and the script lays them out.
Render ==
    /\ dash.pc = "gather"
    /\ LET g == gather(dash.tasks, dash.order)
           results == Zip(dash.chosen, g.results)
       IN /\ g.ready
          /\ dash' = IF g.raised
                     THEN [dash EXCEPT !.pc = "failed"]
                     ELSE [dash EXCEPT !.pc = "rendered", !.results = results,
                                       !.boxes = Boxes(results)]
    /\ UNCHANGED dash_others

\* Streamlit runs the script again (a widget changed, the refresh timer).
Rerun ==
    /\ dash.pc \in {"rendered", "failed"}
    /\ dash' = NoPass
    /\ UNCHANGED dash_others

DashNext ==
    \/ RenderNothing
    \/ \E chosen \in Selections : FetchAll(chosen)
    \/ \E i \in 1..Cardinality(DASH_MODULES) :
          \E outcome \in UNION {FetchOutcomes(m) : m \in DASH_MODULES} :
             StartFetch(i, outcome)
    \/ \E i \in 1..Cardinality(DASH_MODULES) :
          \E outcome \in UNION {FetchOutcomes(m) : m \in DASH_MODULES} :
             CompleteFetch(i, outcome)
    \/ Render
    \/ Rerun

SpecDash == DashInit /\ [][DashNext]_vars

\* C26: fetch_all hands the fetch of every chosen module to gather before it
\* waits for any; whatever order the fetches end in, the pass gets one
\* (module, result) pair per chosen module, in the order chosen, each result
\* the one that module's fetch ended with; a fetch that raised gives its
\* exception as its result and an error box, and every other module's fetch
\* still ends and keeps its own result.
C26_PairsInSelectionOrder ==
    /\ dash.pc # "failed"
    /\ dash.pc = "gather" =>
          /\ Len(dash.tasks) = Len(dash.chosen)
          /\ \A i \in 1..Len(dash.tasks) : dash.tasks[i].m = dash.chosen[i]
    /\ dash.pc = "rendered" =>
          /\ Len(dash.results) = Len(dash.chosen)
          /\ Len(dash.boxes) = Len(dash.chosen)
          /\ \A i \in 1..Len(dash.chosen) :
                LET m == dash.results[i][1]
                    res == dash.results[i][2]
                IN /\ m = dash.chosen[i]
                   /\ dash.tasks[i].st = "done"
                   /\ res = dash.tasks[i].res
                   /\ res \in FetchOutcomes(m)
                   /\ dash.boxes[i].module = m /\ dash.boxes[i].data = res
                   /\ dash.boxes[i].kind = (IF res = FetchRaised(m) THEN "error" ELSE "render")

\* Three modules were chosen; the last chosen ended first, the second chosen
\* raised and ended before the first chosen, which returned.
C26_Witness ==
    /\ dash.pc = "rendered"
    /\ dash.chosen = <<"otx_pulses", "nvd_high_critical", "rss">>
    /\ dash.order = <<3, 2, 1>>
    /\ dash.tasks[2].res = FetchRaised("nvd_high_critical")
    /\ dash.boxes[2].kind = "error"
    /\ dash.boxes[1].kind = "render" /\ dash.boxes[3].kind = "render"


\* ---------------------------------------------------------------------------
\* The order of the statements of write_event and what an aborted call leaves
\* ---------------------------------------------------------------------------
\* A statement before the j-th merges the node of the key.
MergedBefore(ops, key, j) ==
    \E i \in 1..(j - 1) : ops[i].op = "merge_node" /\ ops[i].key = key

\* The first statement merges the event's node, and every relation comes
\* after the merge of each of the two nodes it joins.
NodesBeforeRelations(event) ==
    LET ops == WriteOps(event)
    IN /\ ops[1].op = "merge_node"
       /\ ops[1].key = NodeKey("Event", event.event_id)
       /\ \A j \in 1..Len(ops) :
             ops[j].op = "merge_rel"
                => MergedBefore(ops, ops[j].key[2], j) /\ MergedBefore(ops, ops[j].key[3], j)

RelationsHaveEndpoints(g) ==
    \A r \in BagToSet(g.rels) : BagIn(r[2], g.nodes) /\ BagIn(r[3], g.nodes)

\* The graphs a call can leave that stopped at a failing statement: those of
\* the statements before it, none after.
AbortedGraphs(g, event) ==
    {RunWrites(g, SubSeq(WriteOps(event), 1, k - 1)) : k \in 1..Len(WriteOps(event))}

StopsAtFirstFailure ==
    g_last'.raised =>
        \E e \in GraphEvents :
            /\ e.event_id = g_last'.event_id
            /\ g_graph' \in AbortedGraphs(g_graph, e)

\* C28: write_event merges the Event node first and each Actor, TTP, Incident
\* or Campaign node before the relation that joins it to the event, and stops
\* at the first statement that fails; so in every reachable graph, also one
\* left by an aborted write_event, each relation has both of its end nodes.
C28_RelationsHaveEndpoints ==
    /\ [](\A e \in GraphEvents : NodesBeforeRelations(e))
    /\ [](RelationsHaveEndpoints(g_graph))
    /\ [][StopsAtFirstFailure]_vars

\* A write_event stopped after merging the Event node and the Actor node:
\* both nodes are there, the event has none of its relations.
C28_Witness ==
    /\ g_last.raised
    /\ BagIn(NodeKey("Event", g_last.event_id), g_graph.nodes)
    /\ BagIn(NodeKey("Actor", "a1"), g_graph.nodes)
    /\ \A r \in BagToSet(g_graph.rels) :
          r[2] # NodeKey("Event", g_last.event_id) /\ r[3] # NodeKey("Event", g_last.event_id)


\* ---------------------------------------------------------------------------
\* The graph store against the event table
\* ---------------------------------------------------------------------------
\* Every Event node of the graph has a row of its id in the event table.
GraphWithinTable ==
    \A k \in BagToSet(graph.nodes) : k[1] = "Event" => Stored(k[2])

\* A step that changes the graph is a POST /ingest/event whose insert has
\* just added the row of the event.
GraphWriteAfterCommit ==
    graph' # graph =>
        /\ last'.route = "/ingest/event" /\ last'.resp.status # 401
        /\ Len(event_table') = Len(event_table) + 1
        /\ event_table'[Len(event_table')].event_id = last'.event.event_id
        /\ \A k \in BagToSet(graph'.nodes) :
              (k[1] = "Event" /\ ~BagIn(k, graph.nodes)) => k[2] = last'.event.event_id

\* A request whose insert added no row leaves the graph as it was.
FailedInsertSkipsGraph ==
    event_table' = event_table => graph' = graph

\* C27: in POST /ingest/event the graph is written only after the insert
\* into the event table has committed, and not at all when the insert
\* failed: in every state reachable through the API each event of the graph
\* is in the event table.
C27_GraphWithinTable ==
    /\ []GraphWithinTable
    /\ [][GraphWriteAfterCommit]_vars
    /\ [][FailedInsertSkipsGraph]_vars

\* Two events are stored; the graph store was unreachable for the second,
\* which is in the table and not in the graph, while the first is in both.
C27_Witness ==
    /\ IngestHandled /\ last.gs = GraphDown /\ last.resp.status = 200
    /\ Len(event_table) = 2
    /\ Stored(last.event.event_id)
    /\ ~BagIn(NodeKey("Event", last.event.event_id), graph.nodes)
    /\ BagIn(NodeKey("Event", event_table[1].event_id), graph.nodes)


\* ---------------------------------------------------------------------------
\* Scope kinds and windows the report builder does not know
\* ---------------------------------------------------------------------------
\* SpiceScope (api/schemas.py): scope is one of three literals, window is
\* null or a list of strings of any length.
SpiceScope(scope, scope_id, window) ==
    /\ scope \in {"event", "incident", "campaign"}
    /\ window.given => \A i \in 1..Len(window.bounds) : window.bounds[i] # NoneBound

\* POST /spice/report with a valid key: the body is validated against
\* SpiceScope (422 when it fails), then handed to the handler.
post_spice_report(table, scope, scope_id, window) ==
    IF SpiceScope(scope, scope_id, window)
    THEN spice_report(table, scope, scope_id, window)
    ELSE Response(422, [detail |-> "ValidationError"], <<>>)

\* Event tables: empty, the first three rows, all five.
ScopeTables ==
    LET rows == <<<<2, <<"T1000", "T2000">>, "x", "y">>,
                  <<2, <<"T2000", "T3000", "T4000">>, "y", "x">>,
                  <<1, <<"T3000", "T4000">>, "x", NULL>>,
                  <<3, NULL_LIST, "x", "y">>,
                  <<1, <<"T4000", "T4000">>, NULL, "x">>>>
    IN {[i \in 1..n |-> SpiceRow(RowIds[i], rows[i])] : n \in {0, 3, 5}}

ScopeInit ==
    /\ call \in [fn : {"none"}, table : ScopeTables, scope : {sc[1] : sc \in ScopeInputs},
                 scope_id : {"e2", "x"}, window : WindowInputs]
    /\ event_table = <<>>
    /\ graph = EmptyGraph
    /\ last = NoRequest
    /\ g_graph = EmptyGraph
    /\ g_last = [event_id |-> NULL, raised |-> FALSE, again |-> FALSE, failures |-> 0]
    /\ s_table = <<>>
    /\ s_last = [called |-> FALSE]
    /\ tactic_table = <<>>
    /\ sync_runs = <<>>
    /\ dash = NoPass

\* build_spice_report_v22 called directly.
CallBuildReport ==
    /\ call.fn = "none"
    /\ call' = [call EXCEPT !.fn = "build_spice_report_v22"] @@
               [result |-> build_spice_report_v22(call.table, call.scope, call.scope_id,
                                                  call.window)]
    /\ UNCHANGED <<sync_vars, dash, api_vars, graph_vars, spice_vars>>

\* The same arguments as the body of POST /spice/report.
CallPostSpiceReport ==
    /\ call.fn = "none"
    /\ call' = [call EXCEPT !.fn = "spice_report"] @@
               [result |-> post_spice_report(call.table, call.scope, call.scope_id,
                                             call.window)]
    /\ UNCHANGED <<sync_vars, dash, api_vars, graph_vars, spice_vars>>

ScopeNext == CallBuildReport \/ CallPostSpiceReport

SpecScope == ScopeInit /\ [][ScopeNext]_vars

KnownScope == call.scope \in {"event", "incident", "campaign"}
TwoBounds == call.window.given /\ Len(call.window.bounds) = 2
OddWindow == call.window.given /\ Len(call.window.bounds) # 2

\* The rows the call is to aggregate: those of the scope when the scope kind
\* is known, within the bounds when the window has two.
Aggregated ==
    LET w == call.window
        column(r) == CASE call.scope = "event" -> r.event_id
                       [] call.scope = "incident" -> r.incident_id
                       [] call.scope = "campaign" -> r.campaign_id
        open(b) == b = NoneBound \/ b = EmptyBound
    IN {j \in 1..Len(call.table) :
           /\ KnownScope => column(call.table[j]) = call.scope_id
           /\ TwoBounds => /\ open(w.bounds[1]) \/ w.bounds[1][2] <= call.table[j].ts
                           /\ open(w.bounds[2]) \/ call.table[j].ts <= w.bounds[2][2]}

\* C29: build_spice_report_v22 given a scope kind other than event, incident
\* or campaign applies no scope filter, whatever scope_id is, and given a
\* window whose length is not 2 applies no time bound; it returns a report in
\* both cases.  The body schema of the HTTP route is what turns an unknown
\* scope kind away.
C29_UnknownFilterNotApplied ==
    /\ (call.fn = "build_spice_report_v22" /\ (~KnownScope \/ OddWindow)) =>
          /\ call.result.scores.event_count = Cardinality(Aggregated)
          /\ (~KnownScope /\ ~TwoBounds) =>
                call.result.scores.event_count = Len(call.table)
          /\ ~KnownScope =>
                \A id \in {"e2", "x", "none"} :
                   LET other == build_spice_report_v22(call.table, call.scope, id, call.window)
                   IN /\ other.scores = call.result.scores
                      /\ other.top_ttps = call.result.top_ttps
          /\ OddWindow =>
                LET open == build_spice_report_v22(call.table, call.scope, call.scope_id,
                                                   NoWindow)
                IN /\ open.scores = call.result.scores
                   /\ open.top_ttps = call.result.top_ttps
    /\ call.fn = "spice_report" =>
          /\ ~KnownScope => call.result.status = 422
          /\ (KnownScope /\ call.result.status # 422) =>
                /\ call.result.status = 200
                /\ call.result.body
                      = build_spice_report_v22(call.table, call.scope, call.scope_id,
                                               call.window)
                /\ call.result.body.scores.event_count = Cardinality(Aggregated)

\* The builder was asked for scope "actor" with a window of three bounds over
\* five rows, of which the scope id names one: the report counts all five.
C29_Witness ==
    /\ call.fn = "build_spice_report_v22"
    /\ call.scope = "actor" /\ call.scope_id = "e2"
    /\ Len(call.window.bounds) = 3
    /\ Len(call.table) = 5
    /\ call.result.scores.event_count = 5


\* ---------------------------------------------------------------------------
\* The requests normalize makes
\* ---------------------------------------------------------------------------
\* The URLs of a text, in order.
UrlsOf(text) == SelectSeq(text, IsUrl)

\* C30: normalize makes no request for an event it rejects: an event whose
\* language is unsupported raises the unsupported-language error and causes
\* no request, whatever URLs its text holds; an event in a supported
\* language is accepted and the URLs requested are those of its text after
\* PII scrubbing.
C30_NoRequestForRejected ==
    call.fn = "normalize" =>
       IF detect_language(Cleaned(call.args)) \in SUPPORTED_LANGUAGES
       THEN /\ call.result.ok
            /\ call.result.requests = UrlsOf(remove_pii(Cleaned(call.args)))
       ELSE /\ ~call.result.ok
            /\ call.result.error = "ValueError"
            /\ call.result.requests = <<>>


====
